---- MODULE Spec2Model ----
(***************************************************************************)
(* Model of the hydroponic dosing controller: the state manager            *)
(* (state_machine.cpp), the dosing engine and pump sequencer (pump.cpp),   *)
(* the sensing cycle that feeds them (sensors.cpp) and the host loop with  *)
(* its command handler (main.cpp), and the communication manager that the   *)
(* loop updates first (communication.cpp).                                 *)
(*                                                                         *)
(* Numbers. Times are milliseconds of millis().  Floats are modelled as    *)
(* exact fixed-point values: pH and gains in tenths, flow rates in tenths  *)
(* of ml/min, reservoir volume in tenths of a litre, dose volumes in       *)
(* 1/10000 ml (so 5.0 ml is 50000 and 25.0 ml is 250000).  The PID output  *)
(* kp*e + ki*I + kd*d is in hundredths.                                    *)
(***************************************************************************)
EXTENDS Integers, Sequences, FiniteSets, TLC

VARIABLES
    now,                 \* millis(): the monotonic millisecond clock
    state_manager,       \* state_manager_t (state_machine.h)
    pumps,               \* static pump_t pumps[4] (pump.cpp)
    pump_system,         \* pump_system_t pump_system (pump.cpp)
    ledc,                \* LEDC duty per pin/channel, written by ledcWrite
    sensors,             \* sensor_state_t sensor_state + error_count (sensors.cpp)
    sensor_error_count,  \* static uint8_t sensor_error_count in loop()
    comm,                \* CommunicationManager* Debug, and the last WiFi status seen
    pc,                  \* position of the single control thread
    last_call,           \* the entry point that ran in the last step, and its result
    remaining,           \* operator commands still to come
    accepted             \* per pump, the clock values at which a dose was accepted

vars == <<now, state_manager, pumps, pump_system, ledc, sensors,
          sensor_error_count, comm, pc, last_call, remaining, accepted>>

----------------------------------------------------------------------------
(* Types and program constants *)

PumpIds == 0..3
PH_UP == 0
PH_DOWN == 1
NUTRIENT_A == 2
NUTRIENT_B == 3

SystemStates == {"STARTUP", "INITIALIZING", "MONITORING", "DOSING",
                 "CALIBRATING", "ERROR", "MAINTENANCE", "SHUTDOWN"}
PumpStates == {"IDLE", "PRIMING", "DOSING", "COOLING_DOWN", "ERROR", "MAINTENANCE"}
SensorStates == {"INITIALIZING", "WARMING_UP", "READING", "FILTERING", "READY", "ERROR"}
CalibrationStates == {"IDLE", "ACTIVE"}

PUMP_MIN_FLOW_RATE == 100
PUMP_MAX_FLOW_RATE == 900
PUMP_DEFAULT_FLOW_RATE == 300
PUMP_MAX_DOSES_PER_HOUR == 3
PUMP_MIN_DOSE_INTERVAL == 300000
PUMP_MIN_DOSE_VOLUME == 50000
PUMP_MAX_DOSE_VOLUME == 250000
PUMP_TIMEOUT_MS == 600000
DEFAULT_PH_KP == 80
DEFAULT_PH_KI == 5
DEFAULT_PH_KD == 20
DEFAULT_PH_TARGET == 60
PID_INTEGRAL_MAX == 500
PID_INTEGRAL_MIN == -500
kHourMs == 3600000
SENSOR_INTERVAL == 5000
SENSOR_WARMUP == 200

CommStates == {"SERIAL_ONLY", "WIFI_CONNECTING", "WIFI_PRIMARY", "ERROR"}
\* wl_status_t, as far as update() tells its values apart: connected, the two
\* values it takes for a lost link, and WL_IDLE_STATUS for every other value
WifiStatuses == {"WL_IDLE_STATUS", "WL_CONNECTED", "WL_CONNECTION_LOST",
                 "WL_DISCONNECTED"}
WIFI_CONNECT_TIMEOUT_MS == 10000
WIFI_RETRY_INTERVAL_MS == 30000

\* GPIO pin of each pump (pump_init), and the pwm_channel field, which the
\* constructor sets to 0 and nothing ever changes.
gpio_pin(i) == 11 + i
pwm_channel(i) == 0
Pins == {0, 11, 12, 13, 14}

\* uint32_t subtraction now - stamp.  Every stamp is a past reading of the
\* clock and the clock stays far below 2^32, so the difference never wraps.
U32(x) == x
\* uint8_t conversion
U8(x) == x % 256

constrain(x, lo, hi) == IF x < lo THEN lo ELSE IF x > hi THEN hi ELSE x
Abs(x) == IF x < 0 THEN -x ELSE x
\* float to unsigned conversion truncates toward zero (x >= 0 here)
Trunc(num, den) == num \div den

----------------------------------------------------------------------------
(* A world is the whole program state as one record, so that the code's    *)
(* sequential calls compose as function applications.                      *)

World == [now |-> now, sm |-> state_manager, pumps |-> pumps, sys |-> pump_system,
          ledc |-> ledc, sens |-> sensors, sec |-> sensor_error_count,
          comm |-> comm]

millis(w) == w.now

ledcWrite(w, pin, duty) == [w EXCEPT !.ledc[pin] = duty]

----------------------------------------------------------------------------
(* state_machine.cpp: legality tables *)

\* The device table without its first clause (the escapes to ERROR,
\* MAINTENANCE and SHUTDOWN from any state)
system_table_without_escapes(from, to) ==
    CASE from = "STARTUP"      -> to = "INITIALIZING"
      [] from = "INITIALIZING" -> to = "MONITORING"
      [] from = "MONITORING"   -> to \in {"DOSING", "CALIBRATING"}
      [] from = "DOSING"       -> to = "MONITORING"
      [] from = "CALIBRATING"  -> to = "MONITORING"
      [] from = "ERROR"        -> to \in {"MONITORING", "INITIALIZING"}
      [] from = "MAINTENANCE"  -> to = "MONITORING"
      [] from = "SHUTDOWN"     -> to = "STARTUP"
      [] OTHER                 -> FALSE

is_valid_system_transition(from, to) ==
    IF to \in {"ERROR", "MAINTENANCE", "SHUTDOWN"} THEN TRUE
    ELSE CASE from = "STARTUP"      -> to = "INITIALIZING"
           [] from = "INITIALIZING" -> to = "MONITORING"
           [] from = "MONITORING"   -> to \in {"DOSING", "CALIBRATING"}
           [] from = "DOSING"       -> to = "MONITORING"
           [] from = "CALIBRATING"  -> to = "MONITORING"
           [] from = "ERROR"        -> to \in {"MONITORING", "INITIALIZING"}
           [] from = "MAINTENANCE"  -> to = "MONITORING"
           [] from = "SHUTDOWN"     -> to = "STARTUP"
           [] OTHER                 -> FALSE

\* The pump table with one more edge, IDLE -> DOSING
pump_table_with_shortcut(from, to) ==
    IF to \in {"IDLE", "ERROR", "MAINTENANCE"} THEN TRUE
    ELSE CASE from = "IDLE"         -> to \in {"PRIMING", "DOSING"}
           [] from = "PRIMING"      -> to = "DOSING"
           [] from = "DOSING"       -> to = "COOLING_DOWN"
           [] from = "COOLING_DOWN" -> to = "IDLE"
           [] from = "ERROR"        -> to = "IDLE"
           [] from = "MAINTENANCE"  -> to = "IDLE"
           [] OTHER                 -> FALSE

is_valid_pump_transition(from, to) ==
    IF to \in {"IDLE", "ERROR", "MAINTENANCE"} THEN TRUE
    ELSE CASE from = "IDLE"         -> to = "PRIMING"
           [] from = "PRIMING"      -> to = "DOSING"
           [] from = "DOSING"       -> to = "COOLING_DOWN"
           [] from = "COOLING_DOWN" -> to = "IDLE"
           [] from = "ERROR"        -> to = "IDLE"
           [] from = "MAINTENANCE"  -> to = "IDLE"
           [] OTHER                 -> FALSE

is_valid_sensor_transition(from, to) ==
    IF to = "ERROR" THEN TRUE
    ELSE CASE from = "INITIALIZING" -> to = "READY"
           [] from = "WARMING_UP"   -> to = "READING"
           [] from = "READING"      -> to = "FILTERING"
           [] from = "FILTERING"    -> to = "READY"
           [] from = "READY"        -> to = "WARMING_UP"
           [] from = "ERROR"        -> to \in {"INITIALIZING", "READY"}
           [] OTHER                 -> FALSE

----------------------------------------------------------------------------
(* state_machine.cpp: transition functions.  Each returns the new world    *)
(* and the function's boolean result.                                      *)

\* A device transition function that takes the caller's word for it
system_transition_unchecked(w, new_state) ==
    [w |-> [w EXCEPT !.sm.system_state = new_state,
                     !.sm.system_state_entry_time = millis(w)],
     ret |-> TRUE]

\* A device transition function that puts every pump in IDLE when the device
\* enters ERROR
system_transition_stopping_pumps(w, new_state) ==
    IF ~is_valid_system_transition(w.sm.system_state, new_state)
    THEN [w |-> w, ret |-> FALSE]
    ELSE [w |-> [w EXCEPT !.sm.system_state = new_state,
                          !.sm.system_state_entry_time = millis(w),
                          !.sm.pump_states =
                              IF new_state = "ERROR"
                              THEN [i \in PumpIds |-> "IDLE"] ELSE @],
          ret |-> TRUE]

system_transition_to(w, new_state) ==
    IF ~is_valid_system_transition(w.sm.system_state, new_state)
    THEN [w |-> w, ret |-> FALSE]
    ELSE [w |-> [w EXCEPT !.sm.system_state = new_state,
                          !.sm.system_state_entry_time = millis(w)],
          ret |-> TRUE]

system_get_state_duration_ms(w) == U32(millis(w) - w.sm.system_state_entry_time)

\* A pump transition function that accepts a request for the current state
\* without stamping the entry time again
pump_transition_keeping_stamp(w, pump_id, new_state) ==
    IF pump_id >= 4 THEN [w |-> w, ret |-> FALSE]
    ELSE IF ~is_valid_pump_transition(w.sm.pump_states[pump_id], new_state)
    THEN [w |-> w, ret |-> FALSE]
    ELSE IF w.sm.pump_states[pump_id] = new_state THEN [w |-> w, ret |-> TRUE]
    ELSE [w |-> [w EXCEPT !.sm.pump_states[pump_id] = new_state,
                          !.sm.pump_state_entry_times[pump_id] = millis(w)],
          ret |-> TRUE]

pump_transition_to(w, pump_id, new_state) ==
    IF pump_id >= 4 THEN [w |-> w, ret |-> FALSE]
    ELSE IF ~is_valid_pump_transition(w.sm.pump_states[pump_id], new_state)
    THEN [w |-> w, ret |-> FALSE]
    ELSE [w |-> [w EXCEPT !.sm.pump_states[pump_id] = new_state,
                          !.sm.pump_state_entry_times[pump_id] = millis(w)],
          ret |-> TRUE]

pump_get_state_duration_ms(w, pump_id) ==
    IF pump_id >= 4 THEN 0
    ELSE U32(millis(w) - w.sm.pump_state_entry_times[pump_id])

sensor_transition_to(w, new_state) ==
    IF ~is_valid_sensor_transition(w.sm.sensor_state, new_state)
    THEN [w |-> w, ret |-> FALSE]
    ELSE [w |-> [w EXCEPT !.sm.sensor_state = new_state,
                          !.sm.sensor_state_entry_time = millis(w)],
          ret |-> TRUE]

sensor_get_state_duration_ms(w) == U32(millis(w) - w.sm.sensor_state_entry_time)

calibration_transition_to(w, new_state) ==
    [w |-> [w EXCEPT !.sm.calibration_state = new_state,
                     !.sm.calibration_state_entry_time = millis(w)],
     ret |-> TRUE]

state_machine_init(w) ==
    [w EXCEPT !.sm.system_state_entry_time = millis(w),
              !.sm.sensor_state_entry_time = millis(w),
              !.sm.calibration_state_entry_time = millis(w),
              !.sm.pump_state_entry_times = [i \in PumpIds |-> millis(w)],
              !.sm.debug_logging_enabled = TRUE]

\* An emergency stop that asked the legality tables, as every other caller does
emergency_stop_by_table(w) ==
    LET w1 == system_transition_to(w, "ERROR").w
        w2 == pump_transition_to(pump_transition_to(pump_transition_to(
                  pump_transition_to(w1, 0, "IDLE").w, 1, "IDLE").w, 2, "IDLE").w,
                  3, "IDLE").w
    IN  sensor_transition_to(w2, "READY").w

state_machine_emergency_stop(w) ==
    [w EXCEPT !.sm.system_state = "ERROR",
              !.sm.system_state_entry_time = millis(w),
              !.sm.pump_states = [i \in PumpIds |-> "IDLE"],
              !.sm.pump_state_entry_times = [i \in PumpIds |-> millis(w)],
              !.sm.sensor_state = "READY",
              !.sm.sensor_state_entry_time = millis(w)]

----------------------------------------------------------------------------
(* pump.cpp: private helpers *)

\* Apply a per-pump step to pumps 0, 1, 2, 3 in that order (the code's for loops).
\* Each intermediate world is bound to a value before the next step uses it.
The(S) == CHOOSE x \in S : TRUE
ForEachPump(Op(_, _), w) ==
    The({Op(w3, 3) : w3 \in {Op(w2, 2) : w2 \in {Op(w1, 1) : w1 \in {Op(w0, 0) : w0 \in {w}}}}})

\* The duty mapping without the clamp of the rate
pwm_duty_unclamped(flow_rate) ==
    U8(Trunc((8480 + (flow_rate - 52) * 90) * 255, 84800))

\* duty_percent = 10 + (rate - 5.2) * 90 / 84.8;  (uint8_t)(duty_percent * 255 / 100)
\* With the rate in tenths: duty_percent = (8480 + (rate10 - 52) * 90) / 848.
calculate_pwm_duty(flow_rate) ==
    LET r == constrain(flow_rate, 52, PUMP_MAX_FLOW_RATE)
    IN  U8(Trunc((8480 + (r - 52) * 90) * 255, 84800))

\* The gate without its check of the time since the last dose
can_dose_any_time(w, pump_id) ==
    LET c == w.pumps[pump_id].controller
    IN  IF w.sm.pump_states[pump_id] # "IDLE" THEN [w |-> w, ret |-> FALSE]
        ELSE LET w1 == IF U32(millis(w) - c.hour_start) >= kHourMs
                       THEN [w EXCEPT !.pumps[pump_id].controller.doses_this_hour = 0,
                                      !.pumps[pump_id].controller.hour_start = millis(w)]
                       ELSE w
             IN  IF w1.pumps[pump_id].controller.doses_this_hour >= PUMP_MAX_DOSES_PER_HOUR
                 THEN [w |-> w1, ret |-> FALSE]
                 ELSE IF w1.sm.system_state # "MONITORING" /\ w1.sm.system_state # "DOSING"
                 THEN [w |-> w1, ret |-> FALSE]
                 ELSE [w |-> w1, ret |-> TRUE]

\* The gate without its check of the device state
can_dose_in_any_mode(w, pump_id) ==
    LET c == w.pumps[pump_id].controller
    IN  IF w.sm.pump_states[pump_id] # "IDLE" THEN [w |-> w, ret |-> FALSE]
        ELSE IF U32(millis(w) - c.last_dose_time) < PUMP_MIN_DOSE_INTERVAL
        THEN [w |-> w, ret |-> FALSE]
        ELSE LET w1 == IF U32(millis(w) - c.hour_start) >= kHourMs
                       THEN [w EXCEPT !.pumps[pump_id].controller.doses_this_hour = 0,
                                      !.pumps[pump_id].controller.hour_start = millis(w)]
                       ELSE w
             IN  IF w1.pumps[pump_id].controller.doses_this_hour >= PUMP_MAX_DOSES_PER_HOUR
                 THEN [w |-> w1, ret |-> FALSE]
                 ELSE [w |-> w1, ret |-> TRUE]

\* The gate letting the first dose of a pump through at any time
can_dose_first_dose_free(w, pump_id) ==
    LET c == w.pumps[pump_id].controller
    IN  IF w.sm.pump_states[pump_id] # "IDLE" THEN [w |-> w, ret |-> FALSE]
        ELSE IF c.last_dose_time # 0
                /\ U32(millis(w) - c.last_dose_time) < PUMP_MIN_DOSE_INTERVAL
        THEN [w |-> w, ret |-> FALSE]
        ELSE LET w1 == IF U32(millis(w) - c.hour_start) >= kHourMs
                       THEN [w EXCEPT !.pumps[pump_id].controller.doses_this_hour = 0,
                                      !.pumps[pump_id].controller.hour_start = millis(w)]
                       ELSE w
             IN  IF w1.pumps[pump_id].controller.doses_this_hour >= PUMP_MAX_DOSES_PER_HOUR
                 THEN [w |-> w1, ret |-> FALSE]
                 ELSE IF w1.sm.system_state # "MONITORING" /\ w1.sm.system_state # "DOSING"
                 THEN [w |-> w1, ret |-> FALSE]
                 ELSE [w |-> w1, ret |-> TRUE]

\* A gate that refuses only once the counter is above the hourly maximum
can_dose_quota_off_by_one(w, pump_id) ==
    LET c == w.pumps[pump_id].controller
    IN  IF w.sm.pump_states[pump_id] # "IDLE" THEN [w |-> w, ret |-> FALSE]
        ELSE IF U32(millis(w) - c.last_dose_time) < PUMP_MIN_DOSE_INTERVAL
        THEN [w |-> w, ret |-> FALSE]
        ELSE LET w1 == IF U32(millis(w) - c.hour_start) >= kHourMs
                       THEN [w EXCEPT !.pumps[pump_id].controller.doses_this_hour = 0,
                                      !.pumps[pump_id].controller.hour_start = millis(w)]
                       ELSE w
             IN  IF w1.pumps[pump_id].controller.doses_this_hour > PUMP_MAX_DOSES_PER_HOUR
                 THEN [w |-> w1, ret |-> FALSE]
                 ELSE IF w1.sm.system_state # "MONITORING" /\ w1.sm.system_state # "DOSING"
                 THEN [w |-> w1, ret |-> FALSE]
                 ELSE [w |-> w1, ret |-> TRUE]

can_dose_safely(w, pump_id) ==
    LET c == w.pumps[pump_id].controller
    IN  IF w.sm.pump_states[pump_id] # "IDLE" THEN [w |-> w, ret |-> FALSE]
        ELSE IF U32(millis(w) - c.last_dose_time) < PUMP_MIN_DOSE_INTERVAL
        THEN [w |-> w, ret |-> FALSE]
        ELSE LET w1 == IF U32(millis(w) - c.hour_start) >= kHourMs
                       THEN [w EXCEPT !.pumps[pump_id].controller.doses_this_hour = 0,
                                      !.pumps[pump_id].controller.hour_start = millis(w)]
                       ELSE w
             IN  IF w1.pumps[pump_id].controller.doses_this_hour >= PUMP_MAX_DOSES_PER_HOUR
                 THEN [w |-> w1, ret |-> FALSE]
                 ELSE IF w1.sm.system_state # "MONITORING" /\ w1.sm.system_state # "DOSING"
                 THEN [w |-> w1, ret |-> FALSE]
                 ELSE [w |-> w1, ret |-> TRUE]

\* The dose the feedback law computes before clamping, in 1/10000 ml, and the
\* controller terms it leaves behind.
pid_terms(pid, current_value, volume_liters) ==
    LET error == pid.target_value - current_value
        integral == constrain(pid.integral + error, PID_INTEGRAL_MIN, PID_INTEGRAL_MAX)
        derivative == error - pid.last_error
        output == DEFAULT_PH_KP * error + DEFAULT_PH_KI * integral
                  + DEFAULT_PH_KD * derivative
    IN  [error |-> error, integral |-> integral, derivative |-> derivative,
         output |-> output, dose_ml |-> Abs(output) * volume_liters]

\* The feedback law with the error taken as measurement minus set-point
pid_dose_error_reversed(w, pump_id, current_value, volume_liters) ==
    LET pid == w.pumps[pump_id].controller
        error == current_value - pid.target_value
        integral == constrain(pid.integral + error, PID_INTEGRAL_MIN, PID_INTEGRAL_MAX)
        output == DEFAULT_PH_KP * error + DEFAULT_PH_KI * integral
                  + DEFAULT_PH_KD * (error - pid.last_error)
    IN  [w |-> [w EXCEPT !.pumps[pump_id].controller.integral = integral,
                         !.pumps[pump_id].controller.last_error = error],
         dose_ml |-> constrain(Abs(output) * volume_liters,
                               PUMP_MIN_DOSE_VOLUME, PUMP_MAX_DOSE_VOLUME)]

calculate_pid_dose(w, pump_id, current_value, volume_liters) ==
    LET t == pid_terms(w.pumps[pump_id].controller, current_value, volume_liters)
    IN  [w |-> [w EXCEPT !.pumps[pump_id].controller.integral = t.integral,
                         !.pumps[pump_id].controller.last_error = t.error],
         dose_ml |-> constrain(t.dose_ml, PUMP_MIN_DOSE_VOLUME, PUMP_MAX_DOSE_VOLUME)]

\* run_duration_ms = (dose_ml / flow_rate) * 60000, truncated to uint32_t
run_duration_of(dose_ml, flow_rate) ==
    LET d == Trunc(dose_ml * 60, flow_rate)
    IN  IF d > PUMP_TIMEOUT_MS THEN PUMP_TIMEOUT_MS ELSE d

\* Starting a dose without counting it against the hour
start_pump_dose_uncounted(w, pump_id, dose_ml, flow_rate) ==
    IF pump_id >= 4 THEN [w |-> w, ret |-> FALSE]
    ELSE IF w.sm.pump_states[pump_id] # "IDLE" THEN [w |-> w, ret |-> FALSE]
    ELSE LET w1 == [w EXCEPT !.pumps[pump_id].run_duration_ms =
                                 run_duration_of(dose_ml, flow_rate)]
             pwm_duty == calculate_pwm_duty(flow_rate)
             t == pump_transition_to(w1, pump_id, "PRIMING")
         IN  IF ~t.ret THEN [w |-> t.w, ret |-> FALSE]
             ELSE [w |-> [t.w EXCEPT
                       !.pumps[pump_id].target_pwm_duty = pwm_duty,
                       !.pumps[pump_id].start_time = millis(w),
                       !.pumps[pump_id].controller.last_dose_time = millis(w),
                       !.pumps[pump_id].controller.total_ml_dosed = @ + dose_ml],
                   ret |-> TRUE]

start_pump_dose(w, pump_id, dose_ml, flow_rate) ==
    IF pump_id >= 4 THEN [w |-> w, ret |-> FALSE]
    ELSE IF w.sm.pump_states[pump_id] # "IDLE" THEN [w |-> w, ret |-> FALSE]
    ELSE LET w1 == [w EXCEPT !.pumps[pump_id].run_duration_ms =
                                 run_duration_of(dose_ml, flow_rate)]
             pwm_duty == calculate_pwm_duty(flow_rate)
             t == pump_transition_to(w1, pump_id, "PRIMING")
         IN  IF ~t.ret THEN [w |-> t.w, ret |-> FALSE]
             ELSE [w |-> [t.w EXCEPT
                       !.pumps[pump_id].target_pwm_duty = pwm_duty,
                       !.pumps[pump_id].start_time = millis(w),
                       !.pumps[pump_id].controller.last_dose_time = millis(w),
                       !.pumps[pump_id].controller.doses_this_hour =
                           U8(@ + 1),
                       !.pumps[pump_id].controller.total_ml_dosed = @ + dose_ml],
                   ret |-> TRUE]

----------------------------------------------------------------------------
(* pump.cpp: safety sweep, sequencer, stop *)

\* The safety sweep without its check of the time spent priming
safety_check_without_priming_timeout(w, i) ==
    LET current_state == w.sm.pump_states[i]
        state_duration == pump_get_state_duration_ms(w, i)
    IN  CASE current_state = "DOSING" /\ state_duration > PUMP_TIMEOUT_MS ->
                 pump_transition_to(
                     [ledcWrite(w, pwm_channel(i), 0) EXCEPT !.pumps[i].running = FALSE],
                     i, "ERROR").w
          [] current_state = "ERROR" /\ state_duration > 30000 ->
                 pump_transition_to(w, i, "IDLE").w
          [] OTHER -> w

\* pump_safety_check without the recovery of a pump from ERROR
safety_check_without_error_recovery(w, i) ==
    LET current_state == w.sm.pump_states[i]
        state_duration == pump_get_state_duration_ms(w, i)
    IN  CASE current_state = "PRIMING" /\ state_duration > 5000 ->
                 pump_transition_to(w, i, "ERROR").w
          [] current_state = "DOSING" /\ state_duration > PUMP_TIMEOUT_MS ->
                 pump_transition_to(
                     [ledcWrite(w, pwm_channel(i), 0) EXCEPT !.pumps[i].running = FALSE],
                     i, "ERROR").w
          [] OTHER -> w

pump_safety_check_one(w, i) ==
    LET current_state == w.sm.pump_states[i]
        state_duration == pump_get_state_duration_ms(w, i)
    IN  CASE current_state = "PRIMING" /\ state_duration > 5000 ->
                 pump_transition_to(w, i, "ERROR").w
          [] current_state = "DOSING" /\ state_duration > PUMP_TIMEOUT_MS ->
                 pump_transition_to(
                     [ledcWrite(w, pwm_channel(i), 0) EXCEPT !.pumps[i].running = FALSE],
                     i, "ERROR").w
          [] current_state = "ERROR" /\ state_duration > 30000 ->
                 pump_transition_to(w, i, "IDLE").w
          [] OTHER -> w

pump_safety_check(w) ==
    IF ~w.sys.initialized THEN w ELSE ForEachPump(pump_safety_check_one, w)

\* The sequencer moving a pump whose run is complete to COOLING_DOWN without
\* switching it off
pump_update_leaving_pump_on(w, i) ==
    LET current_state == w.sm.pump_states[i]
        state_duration == pump_get_state_duration_ms(w, i)
        off == [ledcWrite(w, gpio_pin(i), 0) EXCEPT !.pumps[i].running = FALSE]
    IN  CASE current_state = "IDLE" -> off
          [] current_state = "PRIMING" ->
                 IF state_duration < 2500
                 THEN [ledcWrite(w, gpio_pin(i), 63) EXCEPT !.pumps[i].running = TRUE]
                 ELSE pump_transition_to(w, i, "DOSING").w
          [] current_state = "DOSING" ->
                 IF state_duration < w.pumps[i].run_duration_ms
                 THEN [(IF state_duration = 0
                        THEN ledcWrite(w, gpio_pin(i), w.pumps[i].target_pwm_duty)
                        ELSE w) EXCEPT !.pumps[i].running = TRUE]
                 ELSE pump_transition_to(w, i, "COOLING_DOWN").w
          [] current_state = "COOLING_DOWN" -> off
          [] current_state = "ERROR" -> off
          [] OTHER -> w

pump_update_one(w, i) ==
    LET current_state == w.sm.pump_states[i]
        state_duration == pump_get_state_duration_ms(w, i)
        off == [ledcWrite(w, gpio_pin(i), 0) EXCEPT !.pumps[i].running = FALSE]
    IN  CASE current_state = "IDLE" -> off
          [] current_state = "PRIMING" ->
                 IF state_duration < 2500
                 THEN [ledcWrite(w, gpio_pin(i), 63) EXCEPT !.pumps[i].running = TRUE]
                 ELSE pump_transition_to(w, i, "DOSING").w
          [] current_state = "DOSING" ->
                 IF state_duration < w.pumps[i].run_duration_ms
                 THEN [(IF state_duration = 0
                        THEN ledcWrite(w, gpio_pin(i), w.pumps[i].target_pwm_duty)
                        ELSE w) EXCEPT !.pumps[i].running = TRUE]
                 ELSE pump_transition_to(off, i, "COOLING_DOWN").w
          [] current_state = "COOLING_DOWN" -> off
          [] current_state = "ERROR" -> off
          [] OTHER -> w

pump_update(w) ==
    IF ~w.sys.initialized THEN w ELSE ForEachPump(pump_update_one, w)

pump_stop_one(w, i) ==
    pump_transition_to(
        [ledcWrite(w, gpio_pin(i), 0) EXCEPT !.pumps[i].running = FALSE], i, "IDLE").w

pump_stop_all(w) == ForEachPump(pump_stop_one, w)

----------------------------------------------------------------------------
(* pump.cpp: public functions *)

\* pid_controller_t() and pump_t() default constructors
pid_controller_t(w) ==
    [target_value |-> DEFAULT_PH_TARGET, integral |-> 0, last_error |-> 0,
     last_dose_time |-> 0, doses_this_hour |-> 0, hour_start |-> millis(w),
     total_ml_dosed |-> 0]

pump_t(w) ==
    [controller |-> pid_controller_t(w), running |-> FALSE, start_time |-> 0,
     run_duration_ms |-> 0, target_pwm_duty |-> 0]

pump_init(w) ==
    [w EXCEPT !.pumps = [i \in PumpIds |-> pump_t(w)],
              !.ledc = [pin \in Pins |-> IF pin = 0 THEN w.ledc[pin] ELSE 0],
              !.sys.initialized = TRUE]

\* pump_ph_dose without its two input checks
ph_dose_unvalidated(w, current_ph, volume_liters) ==
    IF ~w.sys.initialized \/ ~w.sys.auto_ph_control THEN [w |-> w, ret |-> FALSE]
    ELSE LET pump_id == IF current_ph > w.pumps[PH_UP].controller.target_value
                        THEN PH_DOWN ELSE PH_UP
             g == can_dose_safely(w, pump_id)
         IN  IF ~g.ret THEN [w |-> g.w, ret |-> FALSE]
             ELSE LET d == calculate_pid_dose(g.w, pump_id, current_ph, volume_liters)
                  IN  IF d.dose_ml < PUMP_MIN_DOSE_VOLUME THEN [w |-> d.w, ret |-> FALSE]
                      ELSE start_pump_dose(d.w, pump_id, d.dose_ml, PUMP_DEFAULT_FLOW_RATE)

pump_ph_dose(w, current_ph, volume_liters) ==
    IF ~w.sys.initialized \/ ~w.sys.auto_ph_control THEN [w |-> w, ret |-> FALSE]
    ELSE IF volume_liters < 50 \/ volume_liters > 2000 THEN [w |-> w, ret |-> FALSE]
    ELSE IF current_ph < 40 \/ current_ph > 90 THEN [w |-> w, ret |-> FALSE]
    ELSE LET pump_id == IF current_ph > w.pumps[PH_UP].controller.target_value
                        THEN PH_DOWN ELSE PH_UP
             g == can_dose_safely(w, pump_id)
         IN  IF ~g.ret THEN [w |-> g.w, ret |-> FALSE]
             ELSE LET d == calculate_pid_dose(g.w, pump_id, current_ph, volume_liters)
                  IN  IF d.dose_ml < PUMP_MIN_DOSE_VOLUME THEN [w |-> d.w, ret |-> FALSE]
                      ELSE start_pump_dose(d.w, pump_id, d.dose_ml, PUMP_DEFAULT_FLOW_RATE)

\* A set-point change that leaves the PID terms as they are
set_target_keeping_terms(w, target_ph) ==
    LET t == constrain(target_ph, 50, 80)
    IN  [w EXCEPT !.pumps = [i \in PumpIds |->
            [w.pumps[i] EXCEPT !.controller.target_value = t]]]

pump_set_ph_target(w, target_ph) ==
    LET t == constrain(target_ph, 50, 80)
    IN  [w EXCEPT !.pumps = [i \in PumpIds |->
            [w.pumps[i] EXCEPT !.controller.target_value = t,
                               !.controller.integral = 0,
                               !.controller.last_error = 0]]]

pump_get_ph_target(w) == w.pumps[PH_UP].controller.target_value

\* A manual dose that passed the operator's volume on as it came
manual_dose_unclamped(w, pump, ml) ==
    IF pump >= 4 \/ ~w.sys.initialized THEN [w |-> w, ret |-> FALSE]
    ELSE LET g == can_dose_safely(w, pump)
         IN  IF ~g.ret THEN [w |-> g.w, ret |-> FALSE]
             ELSE start_pump_dose(g.w, pump, ml, PUMP_DEFAULT_FLOW_RATE)

pump_manual_dose(w, pump, ml) ==
    IF pump >= 4 \/ ~w.sys.initialized THEN [w |-> w, ret |-> FALSE]
    ELSE LET clamped == constrain(ml, PUMP_MIN_DOSE_VOLUME, PUMP_MAX_DOSE_VOLUME)
             g == can_dose_safely(w, pump)
         IN  IF ~g.ret THEN [w |-> g.w, ret |-> FALSE]
             ELSE start_pump_dose(g.w, pump, clamped, PUMP_DEFAULT_FLOW_RATE)

pump_is_running(w, pump) == IF pump >= 4 THEN FALSE ELSE w.pumps[pump].running

\* A counter reset that also clears the lifetime totals
pump_reset_counters_clearing_total(w) ==
    [w EXCEPT !.pumps = [i \in PumpIds |->
        [w.pumps[i] EXCEPT !.controller.doses_this_hour = 0,
                           !.controller.hour_start = millis(w),
                           !.controller.total_ml_dosed = 0,
                           !.controller.integral = 0,
                           !.controller.last_error = 0]]]

pump_reset_counters(w) ==
    [w EXCEPT !.pumps = [i \in PumpIds |->
        [w.pumps[i] EXCEPT !.controller.doses_this_hour = 0,
                           !.controller.hour_start = millis(w),
                           !.controller.integral = 0,
                           !.controller.last_error = 0]]]

pump_get_total_dosed(w, pump) ==
    IF pump >= 4 THEN 0 ELSE w.pumps[pump].controller.total_ml_dosed

pump_enable_auto_ph(w, enabled) ==
    LET w1 == [w EXCEPT !.sys.auto_ph_control = enabled]
    IN  IF enabled
        THEN [w1 EXCEPT !.pumps = [i \in PumpIds |->
                [w.pumps[i] EXCEPT !.controller.integral = 0,
                                   !.controller.last_error = 0]]]
        ELSE w1

pump_is_auto_ph_enabled(w) == w.sys.auto_ph_control

pump_start_manual(w, pump, ml_per_min) ==
    IF pump >= 4 \/ ~w.sys.initialized THEN [w |-> w, ret |-> FALSE]
    ELSE IF w.sm.pump_states[pump] # "IDLE" THEN [w |-> w, ret |-> FALSE]
    ELSE LET rate == constrain(ml_per_min, PUMP_MIN_FLOW_RATE, PUMP_MAX_FLOW_RATE)
             pwm_duty == calculate_pwm_duty(rate)
             w1 == [w EXCEPT !.pumps[pump].target_pwm_duty = pwm_duty]
             t == pump_transition_to(w1, pump, "DOSING")
         IN  IF ~t.ret THEN [w |-> t.w, ret |-> FALSE]
             ELSE [w |-> [ledcWrite(t.w, gpio_pin(pump), pwm_duty) EXCEPT
                              !.pumps[pump].running = TRUE,
                              !.pumps[pump].start_time = millis(w),
                              !.pumps[pump].run_duration_ms = PUMP_TIMEOUT_MS],
                   ret |-> TRUE]

pump_stop_manual(w, pump) ==
    IF pump >= 4 THEN [w |-> w, ret |-> FALSE]
    ELSE LET w1 == [ledcWrite(w, gpio_pin(pump), 0) EXCEPT
                        !.pumps[pump].running = FALSE,
                        !.pumps[pump].start_time = 0,
                        !.pumps[pump].run_duration_ms = 0]
             current_state == w1.sm.pump_states[pump]
         IN  [w |-> IF current_state = "DOSING" \/ current_state = "PRIMING"
                    THEN pump_transition_to(w1, pump, "COOLING_DOWN").w
                    ELSE pump_transition_to(w1, pump, "IDLE").w,
              ret |-> TRUE]

----------------------------------------------------------------------------
(* state_machine.cpp: the periodic sweep *)

\* the maintenance branch of the sweep forcing only the energised pumps
sweep_maintenance_running_only(w, i) ==
    IF w.sm.pump_states[i] = "PRIMING" \/ w.sm.pump_states[i] = "DOSING"
    THEN pump_transition_to(w, i, "MAINTENANCE").w
    ELSE w

sweep_maintenance_one(w, i) ==
    IF w.sm.pump_states[i] # "MAINTENANCE" /\ w.sm.pump_states[i] # "IDLE"
    THEN pump_transition_to(w, i, "MAINTENANCE").w
    ELSE w

\* the sweep's pump timeouts with the cooldown released at 300000 ms already
sweep_with_early_cooldown_release(w, i) ==
    LET w1 == IF w.sm.pump_states[i] = "COOLING_DOWN"
                 /\ pump_get_state_duration_ms(w, i) >= 300000
              THEN pump_transition_to(w, i, "IDLE").w
              ELSE w
    IN  IF w1.sm.pump_states[i] = "DOSING"
           /\ pump_get_state_duration_ms(w1, i) > 600000
        THEN pump_transition_to(w1, i, "ERROR").w
        ELSE w1

sweep_pump_timeouts_one(w, i) ==
    LET w1 == IF w.sm.pump_states[i] = "COOLING_DOWN"
                 /\ pump_get_state_duration_ms(w, i) > 300000
              THEN pump_transition_to(w, i, "IDLE").w
              ELSE w
    IN  IF w1.sm.pump_states[i] = "DOSING"
           /\ pump_get_state_duration_ms(w1, i) > 600000
        THEN pump_transition_to(w1, i, "ERROR").w
        ELSE w1

\* the sweep with the device released from ERROR at 5000 ms already
sweep_with_early_device_recovery(w) ==
    LET w1 == IF w.sm.system_state = "ERROR" /\ system_get_state_duration_ms(w) >= 5000
              THEN system_transition_to(w, "MONITORING").w
              ELSE w
        w2 == IF w1.sm.system_state = "MAINTENANCE"
              THEN ForEachPump(sweep_maintenance_one, w1)
              ELSE w1
        w3 == ForEachPump(sweep_pump_timeouts_one, w2)
        sensor_current_state == w3.sm.sensor_state
        sensor_state_duration == sensor_get_state_duration_ms(w3)
        w4 == IF sensor_current_state = "ERROR" /\ sensor_state_duration > 10000
              THEN sensor_transition_to(w3, "READY").w
              ELSE w3
        w5 == IF sensor_current_state = "WARMING_UP" /\ sensor_state_duration > 5000
              THEN sensor_transition_to(w4, "ERROR").w
              ELSE w4
    IN  pump_safety_check(w5)

state_machine_update(w) ==
    LET w1 == IF w.sm.system_state = "ERROR" /\ system_get_state_duration_ms(w) > 5000
              THEN system_transition_to(w, "MONITORING").w
              ELSE w
        w2 == IF w1.sm.system_state = "MAINTENANCE"
              THEN ForEachPump(sweep_maintenance_one, w1)
              ELSE w1
        w3 == ForEachPump(sweep_pump_timeouts_one, w2)
        sensor_current_state == w3.sm.sensor_state
        sensor_state_duration == sensor_get_state_duration_ms(w3)
        w4 == IF sensor_current_state = "ERROR" /\ sensor_state_duration > 10000
              THEN sensor_transition_to(w3, "READY").w
              ELSE w3
        w5 == IF sensor_current_state = "WARMING_UP" /\ sensor_state_duration > 5000
              THEN sensor_transition_to(w4, "ERROR").w
              ELSE w4
    IN  pump_safety_check(w5)

----------------------------------------------------------------------------
(* communication.cpp: the WiFi/serial manager.  What WiFi.status() returns *)
(* is an input: update() reads it once in update_wifi_connection() and     *)
(* once in its switch, and the driver may change it in between.            *)

\* state_change_time, which transition_to() stamps and nothing reads, is not
\* part of the model's record of the manager.
CommunicationManager_transition_to(w, new_state) ==
    IF w.comm.current_state # new_state
    THEN [w EXCEPT !.comm.current_state = new_state]
    ELSE w

update_wifi_connection(w, status) ==
    IF status # w.comm.last_wifi_status
    THEN [(IF status \in {"WL_DISCONNECTED", "WL_CONNECTION_LOST"}
              /\ w.comm.current_state = "WIFI_PRIMARY"
           THEN CommunicationManager_transition_to(w, "SERIAL_ONLY")
           ELSE w) EXCEPT !.comm.last_wifi_status = status]
    ELSE w

\* update() taking every attempt for a success
update_without_status_check(w, seen, status) ==
    LET w1 == update_wifi_connection(w, seen)
        since_attempt == U32(millis(w) - w1.comm.last_wifi_attempt)
    IN  CASE w1.comm.current_state = "WIFI_CONNECTING" ->
                 CommunicationManager_transition_to(
                     [w1 EXCEPT !.comm.telnet_server = TRUE,
                                !.comm.ota_enabled = TRUE], "WIFI_PRIMARY")
          [] w1.comm.current_state = "SERIAL_ONLY" ->
                 IF since_attempt > WIFI_RETRY_INTERVAL_MS
                 THEN CommunicationManager_transition_to(
                          [w1 EXCEPT !.comm.last_wifi_attempt = millis(w)],
                          "WIFI_CONNECTING")
                 ELSE w1
          [] OTHER -> w1

CommunicationManager_update(w, seen, status) ==
    LET w1 == update_wifi_connection(w, seen)
        since_attempt == U32(millis(w) - w1.comm.last_wifi_attempt)
    IN  CASE w1.comm.current_state = "WIFI_CONNECTING" ->
                 IF status = "WL_CONNECTED"
                 THEN CommunicationManager_transition_to(
                          [w1 EXCEPT !.comm.telnet_server = TRUE,
                                     !.comm.ota_enabled = TRUE], "WIFI_PRIMARY")
                 ELSE IF since_attempt > WIFI_CONNECT_TIMEOUT_MS
                 THEN CommunicationManager_transition_to(w1, "SERIAL_ONLY")
                 ELSE w1
          [] w1.comm.current_state = "SERIAL_ONLY" ->
                 IF since_attempt > WIFI_RETRY_INTERVAL_MS
                 THEN CommunicationManager_transition_to(
                          [w1 EXCEPT !.comm.last_wifi_attempt = millis(w)],
                          "WIFI_CONNECTING")
                 ELSE w1
          [] w1.comm.current_state = "WIFI_PRIMARY" ->
                 IF status # "WL_CONNECTED"
                 THEN CommunicationManager_transition_to(w1, "SERIAL_ONLY")
                 ELSE w1
          [] OTHER -> w1

\* The constructor's member initialisers; last_wifi_status is a function
\* static and outlives the object
CommunicationManager(w) ==
    [w EXCEPT !.comm = [exists |-> TRUE, current_state |-> "SERIAL_ONLY",
                        last_wifi_attempt |-> 0,
                        telnet_server |-> FALSE, ota_enabled |-> FALSE,
                        last_wifi_status |-> w.comm.last_wifi_status]]

CommunicationManager_begin(w) ==
    LET w1 == CommunicationManager_transition_to(w, "SERIAL_ONLY")
    IN  CommunicationManager_transition_to(
            [w1 EXCEPT !.comm.last_wifi_attempt = millis(w)], "WIFI_CONNECTING")

communication_init(w) == CommunicationManager_begin(CommunicationManager(w))

----------------------------------------------------------------------------
(* sensors.cpp: the sensing cycle, as far as the state machines see it.    *)
(* Acquisition and filtering are outside the model: whether a raw reading  *)
(* is valid, and the filtered pH and volume, are inputs.                   *)

sensor_initialize(w) ==
    sensor_transition_to([w EXCEPT !.sens.initialized = TRUE,
                                   !.sens.last_reading_time = 0], "READY").w

sensor_update_needed(w) ==
    LET time_for_reading ==
            U32(millis(w) - w.sens.last_reading_time) >= SENSOR_INTERVAL
    IN  [w |-> IF time_for_reading
                  /\ w.sm.sensor_state \in {"READY", "INITIALIZING"}
               THEN sensor_transition_to(w, "WARMING_UP").w
               ELSE w,
         ret |-> time_for_reading]

\* The two statics named error_count in sensor_read_raw are distinct objects:
\* the one the valid branch clears is not the one the invalid branch counts.
sensor_read_raw(w, raw_valid) ==
    IF ~raw_valid
    THEN LET n == U8(w.sens.error_count + 1)
         IN  IF n > 3
             THEN sensor_transition_to([w EXCEPT !.sens.error_count = 0], "ERROR").w
             ELSE [w EXCEPT !.sens.error_count = n]
    ELSE w

sensor_read_all(w, raw_valid) ==
    LET current_state == w.sm.sensor_state
        state_duration == sensor_get_state_duration_ms(w)
    IN  CASE current_state = "WARMING_UP" ->
                 [w |-> IF state_duration >= SENSOR_WARMUP
                        THEN sensor_transition_to(w, "READING").w ELSE w,
                  valid |-> FALSE]
          [] current_state = "READING" ->
                 [w |-> [sensor_transition_to(sensor_read_raw(w, raw_valid),
                                              "FILTERING").w
                            EXCEPT !.sens.current_valid = raw_valid],
                  valid |-> FALSE]
          [] current_state = "FILTERING" ->
                 LET w1 == IF w.sens.current_valid
                           THEN [w EXCEPT !.sens.filtered_valid = TRUE] ELSE w
                 IN  [w |-> [sensor_transition_to(w1, "READY").w
                                EXCEPT !.sens.last_reading_time = millis(w)],
                      valid |-> w.sens.current_valid]
          [] current_state = "READY" ->
                 [w |-> w, valid |-> w.sens.filtered_valid]
          [] OTHER -> [w |-> w, valid |-> FALSE]

----------------------------------------------------------------------------
(* main.cpp: setup() and the phases of loop() *)

\* The block of loop() guarded by MONITORING/DOSING, up to and including
\* pump_update().  raw_valid, ph and volume are what the sensing hardware
\* delivers in this iteration.
loop_operate(w, raw_valid, ph, volume) ==
    LET u == sensor_update_needed(w)
        r == sensor_read_all(u.w, raw_valid)
        dosed == pump_ph_dose(system_transition_to(r.w, "DOSING").w, ph, volume)
        n == U8(r.w.sec + 1)
        w1 == IF ~u.ret THEN u.w
              ELSE IF r.valid
              THEN IF pump_is_auto_ph_enabled(r.w)
                   THEN system_transition_to(dosed.w, "MONITORING").w
                   ELSE r.w
              ELSE IF n > 3
                   THEN [system_transition_to(r.w, "ERROR").w EXCEPT !.sec = 0]
                   ELSE [r.w EXCEPT !.sec = n]
    IN  [w |-> pump_update(w1),
         called |-> u.ret /\ r.valid /\ pump_is_auto_ph_enabled(r.w),
         at |-> system_transition_to(r.w, "DOSING").w,
         ret |-> u.ret /\ r.valid /\ pump_is_auto_ph_enabled(r.w) /\ dosed.ret]

setup(w) ==
    LET w0 == communication_init(w)
        w1 == system_transition_to(state_machine_init(w0), "INITIALIZING").w
        w2 == pump_init(sensor_initialize(w1))
    IN  system_transition_to(w2, "MONITORING").w

\* case 'R'
cli_recover(w) ==
    IF w.sm.system_state = "ERROR" THEN system_transition_to(w, "MONITORING").w ELSE w

\* case 'M' releasing the pumps held in MAINTENANCE when it is switched off
cli_maintenance_releasing_pumps(w) ==
    IF w.sm.system_state = "MAINTENANCE"
    THEN system_transition_to(
             [w EXCEPT !.sm.pump_states = [i \in PumpIds |->
                  IF @[i] = "MAINTENANCE" THEN "IDLE" ELSE @[i]]],
             "MONITORING").w
    ELSE system_transition_to(w, "MAINTENANCE").w

\* case 'M'
cli_maintenance(w) ==
    IF w.sm.system_state = "MAINTENANCE"
    THEN system_transition_to(w, "MONITORING").w
    ELSE system_transition_to(w, "MAINTENANCE").w

\* cases 'p', 'e', 'v': the interactive calibration blocks for dt ms
cli_calibrate(w, dt) ==
    LET w1 == calibration_transition_to(
                  system_transition_to(w, "CALIBRATING").w, "ACTIVE").w
        w2 == [w1 EXCEPT !.now = @ + dt]
    IN  system_transition_to(calibration_transition_to(w2, "IDLE").w, "MONITORING").w

\* case 'x'
cli_emergency_stop(w) == pump_stop_all(state_machine_emergency_stop(w))

----------------------------------------------------------------------------
(* Bounds and input sets *)

\* Clock values at which loop() runs in Spec: at 0, 5000 and 15000 ms into each
\* period of 300000 ms.  5000 ms completes priming (>= 2500) without tripping
\* the priming timeout (> 5000), 15000 ms trips it and completes a 5 ml run;
\* 300000 ms is the dose interval and the cool-down lockout.
MaxPeriods == 2
Offsets == {0, 5000, 15000}
SampleTimes == {b * 300000 + a : b \in 0..MaxPeriods, a \in Offsets}
\* The operator issues at most this many commands in Spec
MaxCommands == 2

\* Filtered measurements handed to the dosing engine (pH in tenths, litres in tenths)
PhInputs == {60, 70, 95}
VolumeInputs == {40, 200}

\* The measurement of a reservoir of 20 l at the set-point
NominalPh == {DEFAULT_PH_TARGET}
NominalVolume == {200}

\* Operator arguments (ml in 1/10000 ml, rates in tenths of ml/min)
ManualMl == {10000, 300000}
ManualRates == {50, 300}
\* Set-points (tenths of a pH unit) the 't' command cycles through
Targets == {55, 70}

\* Pumps the operator addresses with per-pump commands
CmdPumps == {PH_UP}

\* SpecDose: loop() runs at 0 and 5000 ms into each period, the operator
\* issues at most MaxDoseCommands commands
DoseOffsets == {0, 5000}
DoseTimes == {b * 300000 + a : b \in 0..MaxPeriods, a \in DoseOffsets}
MaxDoseCommands == 3

\* SpecQuota: loop() runs, without being held up, at 0, 5000 and 25000 ms into
\* each period of 330000 ms (a 10 ml dose accepted at the start of a period has
\* primed at 5000 ms, has run its 20000 ms at 25000 ms and has cooled down for
\* more than 300000 ms at the start of the next period), for more than an hour.
MaxQuotaPeriods == 11
QuotaOffsets == {0, 5000, 25000}
QuotaTimes == {b * 330000 + a : b \in 0..MaxQuotaPeriods, a \in QuotaOffsets}
MaxQuotaCommands == 4
DemoMl == {100000}

\* SpecGate: loop() runs, without being held up, at 0 and 5000 ms into each
\* period of 300000 ms; the operator doses PH_UP and stops the pumps
MaxGatePeriods == 6
GateTimes == {b * 300000 + a : b \in 0..MaxGatePeriods, a \in DoseOffsets}
MaxGateCommands == 9

\* SpecOverrun: loop() runs when the first dose can be accepted (300000 ms),
\* 5000 ms later, and then after being held up (a blocking calibration, a slow
\* caller) for 605000 ms and for a further 35000 ms
OverrunTimes == {300000, 305000, 910000, 945000}
MaxOverrunCommands == 2

\* SpecCool: loop() runs when the first dose can be accepted (300000 ms),
\* 5000 ms later (priming done), 25000 ms later (the 20000 ms run of a 10 ml
\* dose done, the pump cools down), and 300000 ms and 300001 ms after that; the
\* operator doses PH_UP, stops it and switches maintenance on and off
CoolTimes == {300000, 305000, 325000, 625000, 625001}
MaxCoolCommands == 2

\* SpecEarly: loop() runs at boot, when the first sensing cycle starts
\* (5000 ms) and has warmed up (5200 ms), and around the end of the first dose
\* interval: a sensing cycle started at 299799 ms delivers its reading 1 ms
\* before 300000 ms, one started at 299800 ms delivers it at 300000 ms; the
\* operator switches automatic control on and doses PH_UP by hand
EarlyTimes == {0, 5000, 5200, 299799, 299800, 299999, 300000, 300200}
MaxEarlyCommands == 2

\* SpecMaint: loop() runs when the first dose can be accepted (300000 ms),
\* 5000 ms later, and when the next dose interval has elapsed (600000 ms) and
\* 5000 ms after that; the operator doses PH_UP, switches maintenance on and
\* off and stops the pumps
MaintTimes == {300000, 305000, 600000, 605000}
MaxMaintCommands == 4

\* SpecRestamp: after setup() the transition functions are called with the
\* states below (the escape states and one ordinary state of each machine) and
\* the periodic sweep runs, at clock values 3000 ms apart up to 18000 ms and
\* again around 36000 ms, so that a state entered at 3000 ms and requested
\* again at 6000 ms is swept both sides of 5000, 10000 and 30000 ms after
\* either request
MaxRestampSteps == 6
RestampTimes == {3000 * k : k \in 1..MaxRestampSteps} \cup {33000, 36000, 39000}
RestampSystemStates == {"ERROR", "MAINTENANCE", "SHUTDOWN", "MONITORING"}
RestampPumpStates == {"IDLE", "ERROR", "MAINTENANCE", "PRIMING"}
RestampSensorStates == {"ERROR", "READY"}

\* SpecFrame: the four transition functions are called for two of the pumps
\* and for every pump state, for the device states of SpecRestamp and for the
\* sensing states SpecRestamp uses, before and after the clock has advanced
FramePumps == {PH_UP, NUTRIENT_B}

\* SpecDuty: the operator asks for rates (tenths of ml/min) below, at and above
\* the limits of the duty mapping, in iterations 5000 ms apart
DutyRates == {0, 52, 100, 101, 300, 500, 899, 900, 1000}
DutyTimes == {5000, 10000, 15000}
MaxDutyCommands == 2

\* SpecWindow: loop() runs 300000, 305000 and 330000 ms into each hour (a 10 ml
\* dose accepted at the first has primed at the second and has run its
\* 20000 ms at the third, and has cooled down by the next hour); the operator
\* doses two pumps and resets the counters
MaxHours == 2
HourOffsets == {300000, 305000, 330000}
WindowTimes == {b * kHourMs + a : b \in 0..MaxHours, a \in HourOffsets}
WindowPumps == {PH_UP, NUTRIENT_A}
MaxWindowCommands == 4

\* What WiFi.status() returns to the two reads of one update(): a link that is
\* up throughout, any link, and a link that never reports connected
LinkUp == {<<"WL_CONNECTED", "WL_CONNECTED">>}
LinkAny == WifiStatuses \X WifiStatuses
LinkDown == (WifiStatuses \ {"WL_CONNECTED"}) \X (WifiStatuses \ {"WL_CONNECTED"})

\* SpecComm, SpecLinkDown: loop() runs at any multiple of 10000 ms and 1 ms
\* after it, so that the connect timeout (10000 ms) and the retry interval
\* (30000 ms) are met exactly, exceeded by 1 ms and exceeded by more, over
\* two rounds of attempts
MaxCommSteps == 5
CommTimes == {k * 10000 + d : k \in 0..MaxCommSteps, d \in {0, 1}}

\* SpecSense: loop() runs at any of the clock values 5000, 5200, ... ms: the
\* first reading falls due at 5000 ms, the warm-up takes 200 ms, a cycle run at
\* 200 ms per iteration ends at 5600 ms and the next one falls due at 10600 ms
MaxSenseSteps == 30
SenseTimes == {5000 + 200 * k : k \in 0..MaxSenseSteps}

\* SpecTrans: the clock value the clock advances to between transition requests
TransTimes == {1000}

\* The iterations that can follow the clock value now: any later or equal
\* sample time (the loop may be held up for any time), or the next one only.
AnyLater(T) == {t \in T : t >= now}
Upcoming(T) == {t \in T : t > now /\ \A u \in T : u > now => t <= u}

----------------------------------------------------------------------------
(* Initial state: the globals as their constructors leave them at boot *)

Boot(commands) ==
    /\ now = 0
    /\ state_manager =
           [system_state |-> "STARTUP",
            pump_states |-> [i \in PumpIds |-> "IDLE"],
            sensor_state |-> "INITIALIZING",
            calibration_state |-> "IDLE",
            system_state_entry_time |-> 0,
            pump_state_entry_times |-> [i \in PumpIds |-> 0],
            sensor_state_entry_time |-> 0,
            calibration_state_entry_time |-> 0,
            debug_logging_enabled |-> FALSE]
    /\ pumps = [i \in PumpIds |-> pump_t([now |-> 0])]
    /\ pump_system = [auto_ph_control |-> FALSE, initialized |-> FALSE]
    /\ ledc = [pin \in Pins |-> 0]
    /\ sensors = [last_reading_time |-> 0, initialized |-> FALSE,
                  current_valid |-> FALSE, filtered_valid |-> FALSE,
                  error_count |-> 0]
    /\ sensor_error_count = 0
    /\ comm = [exists |-> FALSE, current_state |-> "SERIAL_ONLY",
               last_wifi_attempt |-> 0,
               telnet_server |-> FALSE, ota_enabled |-> FALSE,
               last_wifi_status |-> "WL_IDLE_STATUS"]
    /\ pc = "boot"
    /\ last_call = [op |-> "boot", pump |-> 0, arg |-> 0, ret |-> TRUE,
                    from |-> "IDLE"]
    /\ remaining = commands
    /\ accepted = [i \in PumpIds |-> <<>>]

----------------------------------------------------------------------------
(* Actions *)

\* Write a world back to the variables
Store(w) ==
    /\ now' = w.now
    /\ state_manager' = w.sm
    /\ pumps' = w.pumps
    /\ pump_system' = w.sys
    /\ ledc' = w.ledc
    /\ sensors' = w.sens
    /\ sensor_error_count' = w.sec
    /\ comm' = w.comm

\* A step of the host loop: a pump that left IDLE for PRIMING or DOSING in it
\* had a dose accepted.
Commit(w) ==
    /\ Store(w)
    /\ accepted' = [i \in PumpIds |->
          IF state_manager.pump_states[i] = "IDLE"
             /\ w.sm.pump_states[i] \in {"PRIMING", "DOSING"}
          THEN Append(accepted[i], w.now) ELSE accepted[i]]

\* from is the state the addressed pump was in when the entry point was called
Called(op, pump, arg, ret) ==
    last_call' = [op |-> op, pump |-> pump, arg |-> arg, ret |-> ret,
                  from |-> state_manager.pump_states[pump]]

\* if (system_state != SHUTDOWN && Debug->available()): a command is read
CliReady ==
    /\ pc = "cli"
    /\ state_manager.system_state # "SHUTDOWN"
    /\ remaining > 0
    /\ remaining' = remaining - 1

NoCommand == remaining' = remaining

Setup ==
    /\ pc = "boot"
    /\ \E w \in {setup(World)} : Commit(w)
    /\ Called("setup", 0, 0, TRUE)
    /\ NoCommand
    /\ pc' = "sweep"

\* Top of loop() at clock value t: Debug->update(), with link the two values
\* WiFi.status() returns in it, then state_machine_update()
loop_top(w, link) == state_machine_update(CommunicationManager_update(w, link[1], link[2]))

Sweep(t, link) ==
    /\ pc = "sweep"
    /\ t >= now
    /\ \E w \in {loop_top([World EXCEPT !.now = t], link)} : Commit(w)
    /\ Called("state_machine_update", 0, link, TRUE)
    /\ NoCommand
    /\ pc' = "operate"

Operating == state_manager.system_state \in {"MONITORING", "DOSING"}

LoopOperate(raw_valid, ph, volume) ==
    /\ pc = "operate"
    /\ Operating
    /\ \E r \in {loop_operate(World, raw_valid, ph, volume)} :
           /\ Commit(r.w)
           /\ IF r.called
              THEN Called("pump_ph_dose", 0, <<ph, volume>>, r.ret)
              ELSE Called("operate", 0, 0, FALSE)
    /\ NoCommand
    /\ pc' = "cli"

LoopSkip ==
    /\ pc = "operate"
    /\ ~Operating
    /\ Commit(World)
    /\ Called("skip", 0, 0, FALSE)
    /\ NoCommand
    /\ pc' = "cli"


CliNone ==
    /\ pc = "cli"
    /\ Commit(World)
    /\ Called("none", 0, 0, FALSE)
    /\ NoCommand
    /\ pc' = "sweep"

CliRecover ==
    /\ CliReady
    /\ \E w \in {cli_recover(World)} : Commit(w)
    /\ Called("recover_from_error", 0, 0, state_manager.system_state = "ERROR")
    /\ pc' = "sweep"

CliMaintenance ==
    /\ CliReady
    /\ \E w \in {cli_maintenance(World)} : Commit(w)
    /\ Called("set_maintenance", 0, 0, TRUE)
    /\ pc' = "sweep"

CliCalibrate(t) ==
    /\ CliReady
    /\ t >= now
    /\ \E w \in {cli_calibrate(World, t - now)} : Commit(w)
    /\ Called("calibrate", 0, 0, TRUE)
    /\ pc' = "sweep"

CliEnableAuto ==
    /\ CliReady
    /\ \E w \in {pump_enable_auto_ph(World, ~pump_is_auto_ph_enabled(World))} : Commit(w)
    /\ Called("enable_auto", 0, ~pump_is_auto_ph_enabled(World), TRUE)
    /\ pc' = "sweep"

CliSetTarget(target) ==
    /\ CliReady
    /\ \E w \in {pump_set_ph_target(World, target)} : Commit(w)
    /\ Called("set_target", 0, target, TRUE)
    /\ pc' = "sweep"

CliManualDose(pump, ml) ==
    /\ CliReady
    /\ \E r \in {pump_manual_dose(World, pump, ml)} :
           Commit(r.w) /\ Called("manual_dose", pump, ml, r.ret)
    /\ pc' = "sweep"

CliStartManual(pump, rate) ==
    /\ CliReady
    /\ \E r \in {pump_start_manual(World, pump, rate)} :
           Commit(r.w) /\ Called("start_manual", pump, rate, r.ret)
    /\ pc' = "sweep"

CliStopManual(pump) ==
    /\ CliReady
    /\ \E r \in {pump_stop_manual(World, pump)} :
           Commit(r.w) /\ Called("stop_manual", pump, 0, r.ret)
    /\ pc' = "sweep"

CliStopAll ==
    /\ CliReady
    /\ \E w \in {pump_stop_all(World)} : Commit(w)
    /\ Called("stop_all", 0, 0, TRUE)
    /\ pc' = "sweep"

CliEmergencyStop ==
    /\ CliReady
    /\ \E w \in {cli_emergency_stop(World)} : Commit(w)
    /\ Called("emergency_stop", 0, 0, TRUE)
    /\ pc' = "sweep"

CliResetCounters ==
    /\ CliReady
    /\ \E w \in {pump_reset_counters(World)} : Commit(w)
    /\ Called("reset_counters", 0, 0, TRUE)
    /\ pc' = "sweep"

\* The state manager driven directly: any caller requesting any transition
Tick(t) ==
    /\ t > now
    /\ Store([World EXCEPT !.now = t])
    /\ Called("tick", 0, 0, TRUE)
    /\ UNCHANGED <<remaining, accepted>>
    /\ pc' = pc

RequestSystem(new_state) ==
    /\ \E r \in {system_transition_to(World, new_state)} :
           Store(r.w) /\ Called("system_transition_to", 0, new_state, r.ret)
    /\ UNCHANGED <<remaining, accepted>>
    /\ pc' = pc

RequestPump(pump_id, new_state) ==
    /\ \E r \in {pump_transition_to(World, pump_id, new_state)} :
           Store(r.w) /\ Called("pump_transition_to", pump_id, new_state, r.ret)
    /\ UNCHANGED <<remaining, accepted>>
    /\ pc' = pc

RequestSensor(new_state) ==
    /\ \E r \in {sensor_transition_to(World, new_state)} :
           Store(r.w) /\ Called("sensor_transition_to", 0, new_state, r.ret)
    /\ UNCHANGED <<remaining, accepted>>
    /\ pc' = pc

RequestInit ==
    /\ Store(state_machine_init(World))
    /\ Called("state_machine_init", 0, 0, TRUE)
    /\ UNCHANGED <<remaining, accepted>>
    /\ pc' = pc

InitTrans == Boot(0)

NextTrans ==
    \/ \E t \in TransTimes : Tick(t)
    \/ \E new_state \in SystemStates : RequestSystem(new_state)
    \/ RequestInit
    \/ \E pump_id \in CmdPumps, new_state \in PumpStates :
           RequestPump(pump_id, new_state)
    \/ \E new_state \in SensorStates : RequestSensor(new_state)

SpecTrans == InitTrans /\ [][NextTrans]_vars

\* The host loop, run at any of the sample times, with the operator starting
\* and stopping pumps
Init == Boot(MaxCommands)

Next ==
    \/ Setup
    \/ \E t \in AnyLater(SampleTimes), link \in LinkUp : Sweep(t, link)
    \/ \E raw_valid \in BOOLEAN, ph \in NominalPh, volume \in NominalVolume :
           LoopOperate(raw_valid, ph, volume)
    \/ LoopSkip
    \/ CliNone
    \/ \E pump \in CmdPumps, ml \in ManualMl : CliManualDose(pump, ml)
    \/ \E pump \in CmdPumps : CliStopManual(pump)
    \/ CliStopAll
    \/ CliEmergencyStop
    \/ CliMaintenance
    \/ CliRecover
    \/ \E t \in AnyLater(SampleTimes) : CliCalibrate(t)

Spec == Init /\ [][Next]_vars

\* The host loop with automatic dosing and every operator command that
\* starts, stops or resets a pump
InitDose == Boot(MaxDoseCommands)

NextDose ==
    \/ Setup
    \/ \E t \in AnyLater(DoseTimes), link \in LinkUp : Sweep(t, link)
    \/ \E raw_valid \in {TRUE}, ph \in PhInputs, volume \in VolumeInputs :
           LoopOperate(raw_valid, ph, volume)
    \/ LoopSkip
    \/ CliNone
    \/ CliEnableAuto
    \/ \E pump \in CmdPumps, ml \in ManualMl : CliManualDose(pump, ml)
    \/ \E pump \in CmdPumps, rate \in ManualRates : CliStartManual(pump, rate)
    \/ \E pump \in CmdPumps : CliStopManual(pump)
    \/ CliStopAll
    \/ CliEmergencyStop
    \/ CliResetCounters
    \/ \E target \in Targets : CliSetTarget(target)

SpecDose == InitDose /\ [][NextDose]_vars

\* The host loop held up for longer than the run-time ceiling while a pump doses
InitOverrun == Boot(MaxOverrunCommands)

NextOverrun ==
    \/ Setup
    \/ \E t \in AnyLater(OverrunTimes), link \in LinkUp : Sweep(t, link)
    \/ \E raw_valid \in {TRUE}, ph \in NominalPh, volume \in NominalVolume :
           LoopOperate(raw_valid, ph, volume)
    \/ LoopSkip
    \/ CliNone
    \/ \E pump \in CmdPumps, ml \in DemoMl : CliManualDose(pump, ml)
    \/ CliMaintenance
    \/ \E t \in AnyLater(OverrunTimes) : CliCalibrate(t)

SpecOverrun == InitOverrun /\ [][NextOverrun]_vars


\* The host loop with the operator starting a pump at a rate
InitCool == Boot(MaxCoolCommands)

NextCool ==
    \/ Setup
    \/ \E t \in AnyLater(CoolTimes), link \in LinkUp : Sweep(t, link)
    \/ \E raw_valid \in {TRUE}, ph \in NominalPh, volume \in NominalVolume :
           LoopOperate(raw_valid, ph, volume)
    \/ LoopSkip
    \/ CliNone
    \/ \E pump \in CmdPumps, ml \in DemoMl : CliManualDose(pump, ml)
    \/ \E pump \in CmdPumps : CliStopManual(pump)
    \/ CliMaintenance

SpecCool == InitCool /\ [][NextCool]_vars

InitEarly == Boot(MaxEarlyCommands)

NextEarly ==
    \/ Setup
    \/ \E t \in AnyLater(EarlyTimes), link \in LinkUp : Sweep(t, link)
    \/ \E raw_valid \in {TRUE}, ph \in PhInputs, volume \in VolumeInputs :
           LoopOperate(raw_valid, ph, volume)
    \/ LoopSkip
    \/ CliNone
    \/ CliEnableAuto
    \/ \E pump \in CmdPumps, ml \in DemoMl : CliManualDose(pump, ml)

SpecEarly == InitEarly /\ [][NextEarly]_vars

InitMaint == Boot(MaxMaintCommands)

NextMaint ==
    \/ Setup
    \/ \E t \in AnyLater(MaintTimes), link \in LinkUp : Sweep(t, link)
    \/ \E raw_valid \in {TRUE}, ph \in NominalPh, volume \in NominalVolume :
           LoopOperate(raw_valid, ph, volume)
    \/ LoopSkip
    \/ CliNone
    \/ \E pump \in CmdPumps, ml \in DemoMl : CliManualDose(pump, ml)
    \/ \E pump \in CmdPumps : CliStopManual(pump)
    \/ CliStopAll
    \/ CliEmergencyStop
    \/ CliMaintenance

SpecMaint == InitMaint /\ [][NextMaint]_vars

\* state_machine_update() called on its own
RequestUpdate ==
    /\ Store(state_machine_update(World))
    /\ Called("state_machine_update", 0, 0, TRUE)
    /\ UNCHANGED <<remaining, accepted>>
    /\ pc' = pc

InitRestamp == Boot(0)

NextRestamp ==
    \/ Setup
    \/ pc = "sweep" /\ \E t \in RestampTimes : Tick(t)
    \/ pc = "sweep" /\ \E new_state \in RestampSystemStates : RequestSystem(new_state)
    \/ pc = "sweep" /\ \E pump_id \in CmdPumps, new_state \in RestampPumpStates :
                           RequestPump(pump_id, new_state)
    \/ pc = "sweep" /\ \E new_state \in RestampSensorStates : RequestSensor(new_state)
    \/ pc = "sweep" /\ RequestUpdate

SpecRestamp == InitRestamp /\ [][NextRestamp]_vars

RequestCalibration(new_state) ==
    /\ \E r \in {calibration_transition_to(World, new_state)} :
           Store(r.w) /\ Called("calibration_transition_to", 0, new_state, r.ret)
    /\ UNCHANGED <<remaining, accepted>>
    /\ pc' = pc

InitFrame == Boot(0)

NextFrame ==
    \/ \E t \in TransTimes : Tick(t)
    \/ \E new_state \in RestampSystemStates : RequestSystem(new_state)
    \/ \E pump_id \in FramePumps, new_state \in PumpStates :
           RequestPump(pump_id, new_state)
    \/ \E new_state \in RestampSensorStates : RequestSensor(new_state)
    \/ \E new_state \in CalibrationStates : RequestCalibration(new_state)

SpecFrame == InitFrame /\ [][NextFrame]_vars

InitDuty == Boot(MaxDutyCommands)

NextDuty ==
    \/ Setup
    \/ \E t \in Upcoming(DutyTimes), link \in LinkUp : Sweep(t, link)
    \/ \E raw_valid \in {TRUE}, ph \in NominalPh, volume \in NominalVolume :
           LoopOperate(raw_valid, ph, volume)
    \/ CliNone
    \/ \E pump \in PumpIds, rate \in DutyRates : CliStartManual(pump, rate)

SpecDuty == InitDuty /\ [][NextDuty]_vars

\* The host loop over three hours, with the operator dosing two pumps
InitWindow == Boot(MaxWindowCommands)

NextWindow ==
    \/ Setup
    \/ \E t \in Upcoming(WindowTimes), link \in LinkUp : Sweep(t, link)
    \/ \E raw_valid \in {TRUE}, ph \in NominalPh, volume \in NominalVolume :
           LoopOperate(raw_valid, ph, volume)
    \/ CliNone
    \/ \E pump \in WindowPumps, ml \in DemoMl : CliManualDose(pump, ml)
    \/ CliResetCounters

SpecWindow == InitWindow /\ [][NextWindow]_vars

\* The host loop with a WiFi link that comes and goes
InitComm == Boot(0)

NextComm ==
    \/ Setup
    \/ \E t \in AnyLater(CommTimes), link \in LinkAny : Sweep(t, link)
    \/ \E raw_valid \in {TRUE}, ph \in NominalPh, volume \in NominalVolume :
           LoopOperate(raw_valid, ph, volume)
    \/ LoopSkip
    \/ CliNone

SpecComm == InitComm /\ [][NextComm]_vars

\* The host loop with a WiFi link that never reports connected
InitLinkDown == Boot(0)

NextLinkDown ==
    \/ Setup
    \/ \E t \in AnyLater(CommTimes), link \in LinkDown : Sweep(t, link)
    \/ \E raw_valid \in {TRUE}, ph \in NominalPh, volume \in NominalVolume :
           LoopOperate(raw_valid, ph, volume)
    \/ LoopSkip
    \/ CliNone

SpecLinkDown == InitLinkDown /\ [][NextLinkDown]_vars

\* The host loop at any iteration rate, with a healthy sensor and no operator
InitSense == Boot(0)

NextSense ==
    \/ Setup
    \/ \E t \in AnyLater(SenseTimes), link \in LinkUp : Sweep(t, link)
    \/ \E raw_valid \in {TRUE}, ph \in NominalPh, volume \in NominalVolume :
           LoopOperate(raw_valid, ph, volume)
    \/ LoopSkip
    \/ CliNone

SpecSense == InitSense /\ [][NextSense]_vars

\* The host loop over more than an hour, with the operator dosing PH_UP
InitQuota == Boot(MaxQuotaCommands)

NextQuota ==
    \/ Setup
    \/ \E t \in Upcoming(QuotaTimes), link \in LinkUp : Sweep(t, link)
    \/ \E raw_valid \in {TRUE}, ph \in NominalPh, volume \in NominalVolume :
           LoopOperate(raw_valid, ph, volume)
    \/ LoopSkip
    \/ CliNone
    \/ \E pump \in CmdPumps, ml \in DemoMl : CliManualDose(pump, ml)

SpecQuota == InitQuota /\ [][NextQuota]_vars

\* The host loop with the operator dosing PH_UP and stopping the pumps right
\* away, so that every gate comes to decide a request
InitGate == Boot(MaxGateCommands)

NextGate ==
    \/ Setup
    \/ \E t \in Upcoming(GateTimes), link \in LinkUp : Sweep(t, link)
    \/ \E raw_valid \in {TRUE}, ph \in NominalPh, volume \in NominalVolume :
           LoopOperate(raw_valid, ph, volume)
    \/ LoopSkip
    \/ CliNone
    \/ \E pump \in CmdPumps, ml \in DemoMl : CliManualDose(pump, ml)
    \/ CliStopAll

SpecGate == InitGate /\ [][NextGate]_vars

----------------------------------------------------------------------------
(* Properties *)

\* C1: in every reachable state, one call of state_machine_emergency_stop
\* leaves the device in ERROR, all four pumps in IDLE and sensing in READY,
\* with every one of these entry timestamps equal to the clock; nothing in the
\* state can make the call fail.
C1_EmergencyStopForcesSafeStates ==
    LET w == state_machine_emergency_stop(World)
    IN  /\ w.sm.system_state = "ERROR"
        /\ w.sm.system_state_entry_time = now
        /\ \A i \in PumpIds : /\ w.sm.pump_states[i] = "IDLE"
                              /\ w.sm.pump_state_entry_times[i] = now
        /\ w.sm.sensor_state = "READY"
        /\ w.sm.sensor_state_entry_time = now

\* The operator stopped the system while a pump was dosing: the pump is in
\* IDLE without having cooled down, the device in ERROR, sensing in READY.
C1_Witness ==
    /\ last_call.op = "emergency_stop"
    /\ last_call.from = "DOSING"
    /\ state_manager.system_state = "ERROR"
    /\ state_manager.pump_states[PH_UP] = "IDLE"
    /\ state_manager.pump_state_entry_times[PH_UP] = now
    /\ state_manager.sensor_state = "READY"
    /\ state_manager.sensor_state_entry_time = now
    /\ now > 0

\* C4: at the end of every iteration of loop() (the command, if any, has been
\* handled), every pump whose state is ERROR or MAINTENANCE has duty 0 on its
\* actuator pin.
IterationEnded == pc = "sweep" /\ last_call.op # "setup"

C4_FaultedPumpHasZeroDuty ==
    IterationEnded =>
        \A i \in PumpIds :
            state_manager.pump_states[i] \in {"ERROR", "MAINTENANCE"}
                => ledc[gpio_pin(i)] = 0

\* C7: a pump that is not IDLE (a dose was accepted for it) becomes IDLE only
\* (a) from COOLING_DOWN after more than 300000 ms there, (b) by an emergency
\* stop, or (c) from the ERROR a timeout forced it into; it leaves DOSING for
\* COOLING_DOWN only when its run duration has elapsed, and it leaves
\* COOLING_DOWN only after the lockout or by an emergency stop.
CooledDown(i) ==
    /\ state_manager.pump_states[i] = "COOLING_DOWN"
    /\ now' - state_manager.pump_state_entry_times[i] > 300000

C7_NoEarlyReturnToIdle ==
    [][\A i \in PumpIds :
         /\ (state_manager.pump_states[i] # "IDLE"
                /\ state_manager'.pump_states[i] = "IDLE")
             => \/ CooledDown(i)
                \/ last_call'.op = "emergency_stop"
                \/ state_manager.pump_states[i] = "ERROR"
         /\ (state_manager.pump_states[i] = "DOSING"
                /\ state_manager'.pump_states[i] = "COOLING_DOWN")
             => now' - state_manager.pump_state_entry_times[i]
                    >= pumps[i].run_duration_ms
         /\ (state_manager.pump_states[i] = "COOLING_DOWN"
                /\ state_manager'.pump_states[i] # "COOLING_DOWN")
             => CooledDown(i) \/ last_call'.op = "emergency_stop"]_vars

\* The entry points that can accept a dose
DoseRequests == {"pump_ph_dose", "manual_dose", "start_manual"}
Last(q) == q[Len(q)]

\* C2: for every pump, two consecutive accepted doses are at least 300000 ms
\* apart, whatever was called in between; a request that returns true is an
\* acceptance at the current clock value, so a request made sooner after the
\* last accepted dose returned false and started nothing.
C2_DosesFiveMinutesApart ==
    /\ \A i \in PumpIds : \A k \in 1..(Len(accepted[i]) - 1) :
           accepted[i][k + 1] - accepted[i][k] >= 300000
    /\ (last_call.op \in DoseRequests /\ last_call.ret)
           => \E i \in PumpIds : accepted[i] # <<>> /\ Last(accepted[i]) = now

\* PH_UP was dosed, stopped by the operator, and dosed again exactly 300000 ms
\* after the first dose.
C2_Witness ==
    /\ Len(accepted[PH_UP]) = 2
    /\ accepted[PH_UP][2] - accepted[PH_UP][1] = 300000
    /\ last_call.op = "manual_dose"
    /\ last_call.ret

\* The four gates of the dosing engine, read off the pump's record
GateIdle(i) == state_manager.pump_states[i] = "IDLE"
GateInterval(i) == now - pumps[i].controller.last_dose_time >= 300000
GateQuota(i) ==
    (IF now - pumps[i].controller.hour_start >= 3600000
     THEN 0 ELSE pumps[i].controller.doses_this_hour) < 3
GateDevice == state_manager.system_state \in {"MONITORING", "DOSING"}
AllGates(i) == GateIdle(i) /\ GateInterval(i) /\ GateQuota(i) /\ GateDevice

\* C5: with the pump system initialized, manual_dose returns true exactly when
\* the four gates pass at the time of the call; when it returns true the pump
\* goes from IDLE to PRIMING, and when it returns false the pump's state is
\* what it was.
C5_ManualDoseFollowsGates ==
    [][last_call'.op = "manual_dose" /\ pump_system.initialized
         => LET i == last_call'.pump
            IN  /\ last_call'.ret <=> AllGates(i)
                /\ last_call'.ret =>
                       /\ state_manager.pump_states[i] = "IDLE"
                       /\ state_manager'.pump_states[i] = "PRIMING"
                /\ ~last_call'.ret =>
                       state_manager'.pump_states[i] = state_manager.pump_states[i]]_vars

\* The third dose of the hour was accepted: PH_UP went from IDLE to PRIMING
C5_Witness ==
    /\ last_call.op = "manual_dose"
    /\ last_call.ret
    /\ last_call.from = "IDLE"
    /\ state_manager.pump_states[PH_UP] = "PRIMING"
    /\ state_manager.pump_state_entry_times[PH_UP] = now
    /\ pumps[PH_UP].controller.doses_this_hour = 3

\* C6: with the pump system initialized, start_manual returns true, takes the
\* pump out of IDLE and energises its actuator if and only if the four gates
\* pass at the time of the call.
C6_StartManualFollowsGates ==
    [][last_call'.op = "start_manual" /\ pump_system.initialized
         => LET i == last_call'.pump
            IN  /\ last_call'.ret <=> AllGates(i)
                /\ last_call'.ret =>
                       /\ state_manager'.pump_states[i] # "IDLE"
                       /\ ledc'[gpio_pin(i)] > 0]_vars

\* C8: a transition request for the device, a pump or sensing that the
\* legality table of that machine does not permit from the current state
\* returns false and leaves the machine's state and entry timestamp as they
\* were.
C8_IllegalTransitionRejected ==
    [][/\ (last_call'.op = "system_transition_to"
             /\ ~is_valid_system_transition(state_manager.system_state, last_call'.arg))
          => /\ ~last_call'.ret
             /\ state_manager'.system_state = state_manager.system_state
             /\ state_manager'.system_state_entry_time
                    = state_manager.system_state_entry_time
       /\ (last_call'.op = "pump_transition_to"
             /\ ~is_valid_pump_transition(state_manager.pump_states[last_call'.pump],
                                          last_call'.arg))
          => /\ ~last_call'.ret
             /\ state_manager'.pump_states = state_manager.pump_states
             /\ state_manager'.pump_state_entry_times
                    = state_manager.pump_state_entry_times
       /\ (last_call'.op = "sensor_transition_to"
             /\ ~is_valid_sensor_transition(state_manager.sensor_state, last_call'.arg))
          => /\ ~last_call'.ret
             /\ state_manager'.sensor_state = state_manager.sensor_state
             /\ state_manager'.sensor_state_entry_time
                    = state_manager.sensor_state_entry_time]_vars

\* DOSING was requested for a device that had been in CALIBRATING since an
\* earlier clock value: the request was refused and nothing moved.
C8_Witness ==
    /\ last_call.op = "system_transition_to"
    /\ last_call.arg = "DOSING"
    /\ ~last_call.ret
    /\ state_manager.system_state = "CALIBRATING"
    /\ state_manager.system_state_entry_time < now

\* C9: when pump_ph_dose is called and the dose of the feedback law before
\* clamping is below 5.0 ml, it returns false, no pump changes state and no
\* pump's last-dose time, hourly count or lifetime total changes.
PhPump(ph) == IF ph > pumps[PH_UP].controller.target_value THEN PH_DOWN ELSE PH_UP

Bookkeeping(c) == <<c.last_dose_time, c.doses_this_hour, c.total_ml_dosed>>

C9_SmallDoseIsNoOp ==
    [][last_call'.op = "pump_ph_dose"
         => LET ph == last_call'.arg[1]
                volume == last_call'.arg[2]
                t == pid_terms(pumps[PhPump(ph)].controller, ph, volume)
            IN  t.dose_ml < 50000 =>
                  /\ ~last_call'.ret
                  /\ state_manager'.pump_states = state_manager.pump_states
                  /\ \A i \in PumpIds : Bookkeeping(pumps'[i].controller)
                                            = Bookkeeping(pumps[i].controller)]_vars

\* C10: whenever a dose is accepted, the amount added to the pump's lifetime
\* total is between 5.0 and 25.0 ml and the run duration is the time that
\* amount takes at the default flow rate.
C10_AcceptedDoseWithinLimits ==
    [][\A i \in PumpIds :
         accepted'[i] # accepted[i] =>
             LET dose == pumps'[i].controller.total_ml_dosed
                             - pumps[i].controller.total_ml_dosed
             IN  /\ dose >= 50000
                 /\ dose <= 250000
                 /\ pumps'[i].run_duration_ms = (dose * 60) \div 300]_vars

\* The operator asked for 30 ml and 25 ml were accepted
C10_Witness ==
    /\ last_call.op = "manual_dose"
    /\ last_call.arg = 300000
    /\ last_call.ret
    /\ accepted[PH_UP] = <<now>>
    /\ pumps[PH_UP].controller.total_ml_dosed = 250000
    /\ pumps[PH_UP].run_duration_ms = 50000

\* C3: for every pump, no four accepted doses lie within one interval of
\* 3600000 ms: the fourth dose counted from any accepted dose comes at least
\* 3600000 ms after it.
C3_ThreeDosesPerRollingHour ==
    \A i \in PumpIds : \A k \in 1..(Len(accepted[i]) - 3) :
        accepted[i][k + 3] - accepted[i][k] >= 3600000

\* Pump i has been in DOSING for longer than the run-time ceiling at clock t
Overrunning(sm, t, i) ==
    /\ sm.pump_states[i] = "DOSING"
    /\ U32(t - sm.pump_state_entry_times[i]) > PUMP_TIMEOUT_MS

\* C11: after every periodic sweep no pump is in DOSING with more than
\* PUMP_TIMEOUT_MS in the state; a pump the sweep found in DOSING for longer
\* than that is in ERROR when the sweep returns, with the output of its pin at 0.
C11_SweepStopsOverrunningPump ==
    [][(pc = "sweep" /\ pc' = "operate") =>
         \A i \in PumpIds :
            /\ ~Overrunning(state_manager', now', i)
            /\ Overrunning(state_manager, now', i) =>
                  /\ state_manager'.pump_states[i] = "ERROR"
                  /\ ledc'[gpio_pin(i)] = 0]_vars

\* Readings (tenths of a pH unit, tenths of a litre) on both sides of each limit
ProbePh == {39, 40, 70, 90, 91}
ProbeVolume == {49, 50, 200, 2000, 2001}
OutOfRange(ph, volume) == volume < 50 \/ volume > 2000 \/ ph < 40 \/ ph > 90

\* C12: pump_ph_dose called with a volume outside [5.0, 200.0] l or a pH outside
\* [4.0, 9.0] returns false and changes nothing: pump states and entry
\* timestamps, PID terms, last-dose timestamps, hourly counters, window starts,
\* lifetime volumes, actuator outputs and the device state are all as before.
\* Checked in every reachable state, for readings on both sides of each limit.
C12_InvalidMeasurementIsNoOp ==
    \A ph \in ProbePh, volume \in ProbeVolume :
        OutOfRange(ph, volume) =>
            LET r == pump_ph_dose(World, ph, volume)
            IN  /\ r.ret = FALSE
                /\ r.w.sm = state_manager
                /\ r.w.pumps = pumps
                /\ r.w.ledc = ledc
                /\ r.w.sys = pump_system

\* The loop has just passed a 4.0 l reading to pump_ph_dose, which refused it,
\* in a state where a 20 l reading at pH 7.0 would still be dosed for
C12_Witness ==
    /\ last_call.op = "pump_ph_dose"
    /\ last_call.arg[2] = 40
    /\ last_call.ret = FALSE
    /\ pump_ph_dose(World, 70, 200).ret = TRUE

\* Some machine is in ERROR after the step and was not before it
EntersError ==
    \/ state_manager.system_state # "ERROR" /\ state_manager'.system_state = "ERROR"
    \/ state_manager.sensor_state # "ERROR" /\ state_manager'.sensor_state = "ERROR"
    \/ \E i \in PumpIds : /\ state_manager.pump_states[i] # "ERROR"
                          /\ state_manager'.pump_states[i] = "ERROR"

\* C13: no invalid measurement, gate-blocked dose request or rejected transition
\* request moves the device, a pump or sensing into ERROR: the steps of the loop
\* that take the measurement and decide on a dose, and the operator's dose
\* requests, never make a machine enter ERROR.
C13_LocalConditionsNeverEscalate ==
    [][last_call'.op \in {"operate", "pump_ph_dose", "manual_dose"}
           => ~EntersError]_vars

\* The edges of the device machine besides its escapes
DeviceEdges ==
    {<<"STARTUP", "INITIALIZING">>, <<"INITIALIZING", "MONITORING">>,
     <<"MONITORING", "DOSING">>, <<"MONITORING", "CALIBRATING">>,
     <<"DOSING", "MONITORING">>, <<"CALIBRATING", "MONITORING">>,
     <<"ERROR", "MONITORING">>, <<"ERROR", "INITIALIZING">>,
     <<"MAINTENANCE", "MONITORING">>, <<"SHUTDOWN", "STARTUP">>}

\* C14: the device machine accepts a request from state from to state to if and
\* only if to is ERROR, MAINTENANCE or SHUTDOWN, or (from, to) is one of the ten
\* listed edges; an accepted request puts the device in the requested state.
C14_DeviceTable ==
    [][last_call'.op = "system_transition_to" =>
         /\ last_call'.ret <=>
               \/ last_call'.arg \in {"ERROR", "MAINTENANCE", "SHUTDOWN"}
               \/ <<state_manager.system_state, last_call'.arg>> \in DeviceEdges
         /\ last_call'.ret => state_manager'.system_state = last_call'.arg]_vars

\* The device has just been restarted from SHUTDOWN
C14_Witness ==
    /\ last_call.op = "system_transition_to"
    /\ last_call.arg = "STARTUP"
    /\ last_call.ret
    /\ state_manager.system_state = "STARTUP"

\* The edges of the pump machine besides its escapes
PumpEdges ==
    {<<"IDLE", "PRIMING">>, <<"PRIMING", "DOSING">>, <<"DOSING", "COOLING_DOWN">>}

\* C15: the pump machine accepts a request from state from to state to if and
\* only if to is IDLE, ERROR or MAINTENANCE, or (from, to) is IDLE -> PRIMING,
\* PRIMING -> DOSING or DOSING -> COOLING_DOWN; every other request is refused.
C15_PumpTable ==
    [][last_call'.op = "pump_transition_to" =>
         /\ last_call'.ret <=>
               \/ last_call'.arg \in {"IDLE", "ERROR", "MAINTENANCE"}
               \/ <<state_manager.pump_states[last_call'.pump], last_call'.arg>>
                      \in PumpEdges
         /\ last_call'.ret =>
                state_manager'.pump_states[last_call'.pump] = last_call'.arg]_vars

\* DOSING has just been requested for an idle pump and refused
C15_Witness ==
    /\ last_call.op = "pump_transition_to"
    /\ last_call.from = "IDLE"
    /\ last_call.arg = "DOSING"
    /\ ~last_call.ret
    /\ state_manager.pump_states[last_call.pump] = "IDLE"

\* C16: after state_machine_init returns, whatever the machines' states were
\* before the call, the device is in STARTUP, every pump in IDLE, sensing in
\* INITIALIZING and calibration in IDLE, every entry timestamp equals the clock
\* and transition logging is enabled.
C16_InitResetsMachines ==
    [][last_call'.op = "state_machine_init" =>
         /\ state_manager'.system_state = "STARTUP"
         /\ \A i \in PumpIds : state_manager'.pump_states[i] = "IDLE"
         /\ state_manager'.sensor_state = "INITIALIZING"
         /\ state_manager'.calibration_state = "IDLE"
         /\ state_manager'.system_state_entry_time = now'
         /\ \A i \in PumpIds : state_manager'.pump_state_entry_times[i] = now'
         /\ state_manager'.sensor_state_entry_time = now'
         /\ state_manager'.calibration_state_entry_time = now'
         /\ state_manager'.debug_logging_enabled]_vars

\* Set-points (tenths of a pH unit) on both sides of each limit, and the two
\* PID terms of every pump
ProbeTargets == {45, 50, 65, 80, 85}
TermsZero(ps) ==
    \A i \in PumpIds : ps[i].controller.integral = 0 /\ ps[i].controller.last_error = 0
TermsOf(ps) ==
    [i \in PumpIds |-> <<ps[i].controller.integral, ps[i].controller.last_error>>]

\* C17: after pump_set_ph_target with any argument, and after
\* pump_enable_auto_ph(true), every pump's PID integral and last-error terms are
\* zero; pump_enable_auto_ph(false) leaves both unchanged; pump_get_ph_target
\* after pump_set_ph_target(ph) returns ph clamped to [5.0, 8.0], and that is the
\* set-point of all four controllers.  Checked in every reachable state, for
\* set-points below, at, between and above the limits, and on every step in
\* which the operator issues one of the two commands.
C17_PidTermsReset ==
    /\ [](/\ \A ph \in ProbeTargets :
               LET w == pump_set_ph_target(World, ph)
                   clamped == IF ph < 50 THEN 50 ELSE IF ph > 80 THEN 80 ELSE ph
               IN  /\ TermsZero(w.pumps)
                   /\ pump_get_ph_target(w) = clamped
                   /\ \A i \in PumpIds : w.pumps[i].controller.target_value = clamped
          /\ TermsZero(pump_enable_auto_ph(World, TRUE).pumps)
          /\ TermsOf(pump_enable_auto_ph(World, FALSE).pumps) = TermsOf(pumps))
    /\ [][/\ last_call'.op = "set_target" => TermsZero(pumps')
          /\ (last_call'.op = "enable_auto" /\ last_call'.arg) => TermsZero(pumps')
          /\ (last_call'.op = "enable_auto" /\ ~last_call'.arg)
                => TermsOf(pumps') = TermsOf(pumps)]_vars

\* Automatic control has just been switched off with the terms of a controller
\* that has computed a dose still in place
C17_Witness ==
    /\ last_call.op = "enable_auto"
    /\ last_call.arg = FALSE
    /\ ~TermsZero(pumps)

\* The starting point of the worked example
FreshScenario ==
    /\ pump_system.initialized /\ pump_system.auto_ph_control
    /\ state_manager.system_state = "MONITORING"
    /\ \A i \in {PH_UP, PH_DOWN} :
          /\ AllGates(i)
          /\ pumps[i].controller.integral = 0
          /\ pumps[i].controller.last_error = 0
          /\ pumps[i].controller.target_value = 60

\* C18: with automatic control on, the device in MONITORING, both pH pumps IDLE
\* with zero PID terms, all gates passing, the default gains and set-point 6.0,
\* pump_ph_dose(7.0, 20 l) selects PH_DOWN, computes error -1.0, integral -1.0,
\* derivative -1.0, output -10.5 and a dose of 21.0 ml, stores a run duration of
\* 42000 ms and the duty of 30 ml/min (36.3 % of 255, truncated to 92), and
\* puts PH_DOWN in PRIMING while PH_UP stays IDLE.
\* (pH, error and integral in tenths; output in hundredths; ml in 1/10000.)
C18_WorkedExample ==
    FreshScenario =>
        LET r == pump_ph_dose(World, 70, 200)
            t == pid_terms(pumps[PH_DOWN].controller, 70, 200)
        IN  /\ r.ret
            /\ t.error = -10 /\ t.integral = -10 /\ t.derivative = -10
            /\ t.output = -1050
            /\ t.dose_ml = 210000
            /\ r.w.pumps[PH_DOWN].controller.integral = -10
            /\ r.w.pumps[PH_DOWN].controller.last_error = -10
            /\ r.w.pumps[PH_DOWN].controller.total_ml_dosed
                   = pumps[PH_DOWN].controller.total_ml_dosed + 210000
            /\ r.w.pumps[PH_DOWN].run_duration_ms = 42000
            /\ r.w.pumps[PH_DOWN].target_pwm_duty = 92
            /\ r.w.sm.pump_states[PH_DOWN] = "PRIMING"
            /\ r.w.sm.pump_states[PH_UP] = "IDLE"
            /\ r.w.pumps[PH_UP] = pumps[PH_UP]

\* The scenario is reached, and the loop has made exactly this call from it:
\* PH_DOWN is priming for a 21 ml dose accepted at the current clock value
C18_Witness ==
    /\ last_call.op = "pump_ph_dose"
    /\ last_call.arg = <<70, 200>>
    /\ last_call.ret
    /\ state_manager.pump_states[PH_DOWN] = "PRIMING"
    /\ state_manager.pump_states[PH_UP] = "IDLE"
    /\ pumps[PH_DOWN].controller.integral = -10
    /\ pumps[PH_DOWN].controller.total_ml_dosed = 210000
    /\ pumps[PH_DOWN].run_duration_ms = 42000

\* Rates in tenths of ml/min, and the interpolation between the two limits
RateProbes == 0..1000
Interpolated(rate) == ((8480 + 90 * (rate - 52)) * 255) \div 84800

\* C19: the rate-to-duty mapping is non-decreasing in the rate and bounded: a
\* rate at or below 5.2 ml/min maps to 25 (10 % of 255, truncated), a rate at or
\* above 90 ml/min maps to 255, a rate in between maps to the truncated linear
\* interpolation, which lies between the two; the duty is always in 25..255.
\* Checked for every rate from 0 to 100 ml/min in steps of 0.1, and for the duty
\* that pump_start_manual stores for the operator's rate.
C19_DutyMonotonicAndBounded ==
    /\ \A rate \in RateProbes :
          LET duty == calculate_pwm_duty(rate)
          IN  /\ duty \in 25..255
              /\ rate <= 52 => duty = 25
              /\ rate >= 900 => duty = 255
              /\ (rate > 52 /\ rate < 900) => duty = Interpolated(rate)
              /\ duty <= calculate_pwm_duty(rate + 1)
    /\ last_call.op = "start_manual" =>
          pumps[last_call.pump].target_pwm_duty \in 25..255

\* The operator has asked for 100 ml/min and the duty stored for it is 255
C19_Witness ==
    /\ last_call.op = "start_manual"
    /\ last_call.arg = 1000
    /\ pumps[last_call.pump].target_pwm_duty = 255

\* Pump i's hourly window was restarted in the step; it had elapsed and was
\* restarted at the clock; a dose request leaves the other pumps' windows alone
WindowMoved(i) ==
    \/ pumps'[i].controller.hour_start # pumps[i].controller.hour_start
    \/ pumps'[i].controller.doses_this_hour < pumps[i].controller.doses_this_hour

WindowElapsed(i) ==
    /\ now' - pumps[i].controller.hour_start >= 3600000
    /\ pumps'[i].controller.hour_start = now'
    /\ pumps'[i].controller.doses_this_hour \in {0, 1}

OthersUntouched ==
    last_call'.op = "manual_dose" =>
        \A j \in PumpIds \ {last_call'.pump} :
            /\ pumps'[j].controller.hour_start = pumps[j].controller.hour_start
            /\ pumps'[j].controller.doses_this_hour
                   = pumps[j].controller.doses_this_hour

\* C20, as stated: a pump's hourly counter is reset to zero, and its window
\* start moved to the current time, only when at least 3600000 ms have elapsed
\* since that pump's own window start, and so at most once per window;
\* evaluating the gate or accepting a dose for one pump never changes another
\* pump's counter or window start.
C20_WindowResetOnlyWhenElapsed ==
    [][/\ \A i \in PumpIds : WindowMoved(i) => WindowElapsed(i)
       /\ OthersUntouched]_vars

\* The part of C20 that concerns the gate alone: in every step other than a
\* pump_reset_counters call, a window is restarted only when it has elapsed,
\* and a dose request for one pump leaves the other pumps' windows alone.
WindowResetByGateOnlyWhenElapsed ==
    [][/\ last_call'.op # "reset_counters" =>
             \A i \in PumpIds : WindowMoved(i) => WindowElapsed(i)
       /\ OthersUntouched]_vars

\* C21: from communication_init on, with a WiFi link that never reports
\* connected, the manager exists (Debug is non-null) and after every update()
\* its state is SERIAL_ONLY or WIFI_CONNECTING, never WIFI_PRIMARY or ERROR.
C21_LinkDownNeverPrimary ==
    pc # "boot" =>
        /\ comm.exists
        /\ comm.current_state \in {"SERIAL_ONLY", "WIFI_CONNECTING"}

\* update() has just given up the first attempt, more than 10000 ms after it
\* began, on a link that never reported connected
C21_Witness ==
    /\ last_call.op = "state_machine_update"
    /\ comm.exists
    /\ comm.current_state = "SERIAL_ONLY"
    /\ comm.last_wifi_attempt = 0
    /\ now > 10000

\* A step of loop() that ran update(); the time since the attempt began, at the
\* clock value update() reads; the two values WiFi.status() returned in it
UpdateStep == last_call'.op = "state_machine_update"
SinceAttempt == now' - comm.last_wifi_attempt
LinkSeen == last_call'.arg[1]
LinkStatus == last_call'.arg[2]
LinkLost == LinkSeen # "WL_CONNECTED" /\ LinkStatus # "WL_CONNECTED"

ReconnectExceptLostLink ==
    [][UpdateStep =>
         /\ (comm.current_state = "WIFI_CONNECTING" /\ LinkStatus # "WL_CONNECTED")
                => comm'.current_state = (IF SinceAttempt > 10000
                                          THEN "SERIAL_ONLY" ELSE "WIFI_CONNECTING")
         /\ comm.current_state = "SERIAL_ONLY"
                => IF SinceAttempt > 30000
                   THEN /\ comm'.current_state = "WIFI_CONNECTING"
                        /\ comm'.last_wifi_attempt = now'
                   ELSE /\ comm'.current_state = "SERIAL_ONLY"
                        /\ comm'.last_wifi_attempt = comm.last_wifi_attempt
         /\ (comm.current_state = "WIFI_PRIMARY" /\ LinkLost)
                => \/ comm'.current_state = "SERIAL_ONLY"
                   \/ /\ comm'.current_state = "WIFI_CONNECTING"
                      /\ SinceAttempt > 30000
                      /\ comm'.last_wifi_attempt = now'
         /\ (comm.current_state = "WIFI_CONNECTING" /\ LinkStatus = "WL_CONNECTED")
                => comm'.current_state = "WIFI_PRIMARY"]_vars

\* C23: at the end of every iteration of loop() in which a pump is in DOSING
\* with less than its stored run duration in the state, the duty on that pump's
\* pin is its stored target duty.
C23_DosingRunsAtTargetDuty ==
    IterationEnded =>
        \A i \in PumpIds :
            (/\ state_manager.pump_states[i] = "DOSING"
             /\ now - state_manager.pump_state_entry_times[i] < pumps[i].run_duration_ms)
                => ledc[gpio_pin(i)] = pumps[i].target_pwm_duty

\* C24: when pump_stop_manual returns true, the duty on the pump's pin is 0 and
\* the pump is in COOLING_DOWN if it was in PRIMING or DOSING and in IDLE
\* otherwise, so never in PRIMING or DOSING; and a pump that has been stopped (its
\* run duration is 0, as pump_stop_manual leaves it and only an accepted dose
\* changes it) has duty 0 on its pin until a new dose is accepted.
C24_StopManualStopsPump ==
    /\ [][(last_call'.op = "stop_manual" /\ last_call'.ret) =>
             LET i == last_call'.pump
             IN  /\ ledc'[gpio_pin(i)] = 0
                 /\ state_manager'.pump_states[i] =
                        (IF state_manager.pump_states[i] \in {"PRIMING", "DOSING"}
                         THEN "COOLING_DOWN" ELSE "IDLE")]_vars
    /\ [](\A i \in PumpIds : pumps[i].run_duration_ms = 0 => ledc[gpio_pin(i)] = 0)

\* C25: with the pump system initialized and the pump in IDLE,
\* pump_start_manual(pump, rate) returns true, puts the pump in DOSING, writes to
\* its pin the duty of the rate clamped to [10.0, 90.0] ml/min, sets the running
\* flag and stores a run duration of 600000 ms.
C25_StartManualRunsPump ==
    [][(/\ last_call'.op = "start_manual"
        /\ pump_system.initialized
        /\ state_manager.pump_states[last_call'.pump] = "IDLE") =>
          LET i == last_call'.pump
              rate == constrain(last_call'.arg, 100, 900)
          IN  /\ last_call'.ret
              /\ state_manager'.pump_states[i] = "DOSING"
              /\ ledc'[gpio_pin(i)] = calculate_pwm_duty(rate)
              /\ pumps'[i].running
              /\ pumps'[i].run_duration_ms = 600000]_vars

\* A step of loop() up to and including the sensing block, and the order of
\* the states of a sensing cycle
LoopStep == last_call'.op \in {"state_machine_update", "operate", "pump_ph_dose"}
CycleNext ==
    {<<"READY", "WARMING_UP">>, <<"WARMING_UP", "READING">>,
     <<"READING", "FILTERING">>, <<"FILTERING", "READY">>}

\* C26: with the device in MONITORING and every raw reading valid, in every
\* step of loop(), whatever the clock values at which it runs: sensing stays
\* where it is or moves to the next state of the cycle READY, WARMING_UP,
\* READING, FILTERING, READY; the step that ends a cycle (FILTERING to READY)
\* delivers a valid reading; the device does not enter ERROR and sensing does
\* not enter ERROR.
C26_HealthyCycleCompletes ==
    [][(LoopStep /\ state_manager.system_state = "MONITORING") =>
         /\ \/ state_manager'.sensor_state = state_manager.sensor_state
            \/ <<state_manager.sensor_state, state_manager'.sensor_state>> \in CycleNext
         /\ (state_manager.sensor_state = "FILTERING"
                /\ state_manager'.sensor_state = "READY") => sensors'.filtered_valid
         /\ state_manager'.system_state # "ERROR"
         /\ state_manager'.sensor_state # "ERROR"]_vars

\* The steps of loop() in which the sequencer (pump_update) and the periodic
\* sweep (state_machine_update) run, and a pump's time in its state at the
\* clock value of the step
SequencerStep == last_call'.op \in {"operate", "pump_ph_dose"}
SweepStep == last_call'.op = "state_machine_update"
TimeInState(i) == now' - state_manager.pump_state_entry_times[i]

C28_ErrorPumpRecoversInEveryDeviceState ==
    [][\A i \in PumpIds :
         (SweepStep /\ state_manager.pump_states[i] = "ERROR") =>
            /\ TimeInState(i) > 30000 => state_manager'.pump_states[i] = "IDLE"
            /\ TimeInState(i) <= 30000 => state_manager'.pump_states[i] # "IDLE"]_vars

\* C28 (amended): a periodic sweep that finds a pump in ERROR with the device
\* outside MAINTENANCE moves it to IDLE when its time in the state exceeds
\* 30000 ms and leaves it in ERROR at 30000 ms or less; with the device in
\* MAINTENANCE the sweep forces the pump to MAINTENANCE instead, whatever its
\* time in the state. Either way no sweep leaves a pump in ERROR that has been
\* there for more than 30000 ms.
C28_ErrorPumpRecoversOutsideMaintenance ==
    [][\A i \in PumpIds :
         (SweepStep /\ state_manager.pump_states[i] = "ERROR") =>
            IF state_manager.system_state = "MAINTENANCE"
            THEN state_manager'.pump_states[i] = "MAINTENANCE"
            ELSE /\ TimeInState(i) > 30000 =>
                        /\ state_manager'.pump_states[i] = "IDLE"
                        /\ state_manager'.pump_state_entry_times[i] = now'
                 /\ TimeInState(i) <= 30000 =>
                        /\ state_manager'.pump_states[i] = "ERROR"
                        /\ state_manager'.pump_state_entry_times[i] =
                               state_manager.pump_state_entry_times[i]]_vars

\* The sweep has just moved PH_UP from ERROR back to IDLE
C28_Witness ==
    /\ last_call.op = "state_machine_update"
    /\ last_call.from = "ERROR"
    /\ state_manager.system_state # "MAINTENANCE"
    /\ state_manager.pump_states[PH_UP] = "IDLE"
    /\ state_manager.pump_state_entry_times[PH_UP] = now

\* C29 as stated: a periodic sweep that finds a pump in COOLING_DOWN moves it
\* to IDLE when its time in the state exceeds 300000 ms and does not move it to
\* IDLE at 300000 ms or less.
C29_CoolingPumpBecomesIdle ==
    [][\A i \in PumpIds :
         (SweepStep /\ state_manager.pump_states[i] = "COOLING_DOWN") =>
            /\ TimeInState(i) > 300000 => state_manager'.pump_states[i] = "IDLE"
            /\ TimeInState(i) <= 300000 => state_manager'.pump_states[i] # "IDLE"]_vars

\* C29 (amended): a periodic sweep that finds a pump in COOLING_DOWN with the
\* device outside MAINTENANCE moves it to IDLE when its time in the state
\* exceeds 300000 ms and leaves it in COOLING_DOWN at 300000 ms or less; with
\* the device in MAINTENANCE the sweep forces the pump to MAINTENANCE instead,
\* whatever its time in the state.
C29_CoolingPumpBecomesIdleOutsideMaintenance ==
    [][\A i \in PumpIds :
         (SweepStep /\ state_manager.pump_states[i] = "COOLING_DOWN") =>
            IF state_manager.system_state = "MAINTENANCE"
            THEN state_manager'.pump_states[i] = "MAINTENANCE"
            ELSE /\ TimeInState(i) > 300000 =>
                        /\ state_manager'.pump_states[i] = "IDLE"
                        /\ state_manager'.pump_state_entry_times[i] = now'
                 /\ TimeInState(i) <= 300000 =>
                        /\ state_manager'.pump_states[i] = "COOLING_DOWN"
                        /\ state_manager'.pump_state_entry_times[i] =
                               state_manager.pump_state_entry_times[i]]_vars

\* The sweep has just moved PH_UP from COOLING_DOWN to IDLE
C29_Witness ==
    /\ last_call.op = "state_machine_update"
    /\ last_call.from = "COOLING_DOWN"
    /\ state_manager.system_state # "MAINTENANCE"
    /\ state_manager.pump_states[PH_UP] = "IDLE"
    /\ state_manager.pump_state_entry_times[PH_UP] = now

RecoverStep == last_call'.op = "recover_from_error"
DeviceTimeInState == now' - state_manager.system_state_entry_time

C31_MaintenanceHoldsPumps ==
    [][state_manager.system_state = "MAINTENANCE" =>
          /\ SweepStep =>
                /\ state_manager'.system_state = "MAINTENANCE"
                /\ \A i \in PumpIds :
                       state_manager'.pump_states[i] \in {"IDLE", "MAINTENANCE"}
          /\ accepted' = accepted
          /\ \A i \in PumpIds :
                 state_manager.pump_states[i] = "IDLE" =>
                     state_manager'.pump_states[i] \notin {"PRIMING", "DOSING"}
          /\ last_call'.op \in DoseRequests => ~last_call'.ret]_vars

\* The operator has just asked for a manual dose of PH_UP with the device in
\* MAINTENANCE, the pump idle and its dose interval elapsed, and was refused
C31_Witness ==
    /\ last_call.op = "manual_dose"
    /\ ~last_call.ret
    /\ last_call.from = "IDLE"
    /\ state_manager.system_state = "MAINTENANCE"
    /\ now - pumps[PH_UP].controller.last_dose_time >= PUMP_MIN_DOSE_INTERVAL
    /\ pumps[PH_UP].controller.doses_this_hour < PUMP_MAX_DOSES_PER_HOUR

\* C32: at the end of every iteration of loop(), whatever the device state, a
\* pump in IDLE or COOLING_DOWN has duty 0 on its pin and its running flag
\* cleared.
C32_RestingPumpIsOff ==
    IterationEnded =>
        \A i \in PumpIds :
            state_manager.pump_states[i] \in {"IDLE", "COOLING_DOWN"} =>
                /\ ledc[gpio_pin(i)] = 0
                /\ ~pumps[i].running

\* An iteration has just ended in which the sequencer found PH_UP's run
\* complete and moved it from DOSING to COOLING_DOWN
C32_Witness ==
    /\ IterationEnded
    /\ state_manager.pump_states[PH_UP] = "COOLING_DOWN"
    /\ state_manager.pump_state_entry_times[PH_UP] = now
    /\ pumps[PH_UP].run_duration_ms > 0
    /\ ledc[gpio_pin(PH_UP)] = 0

Accepts(i) ==
    /\ state_manager.pump_states[i] = "IDLE"
    /\ state_manager'.pump_states[i] = "PRIMING"
\* the volume (1/10000 ml) the request recorded in last_call' asks pump i for
RequestedDose(i) ==
    IF last_call'.op = "manual_dose"
    THEN constrain(last_call'.arg, PUMP_MIN_DOSE_VOLUME, PUMP_MAX_DOSE_VOLUME)
    ELSE constrain(pid_terms(pumps[i].controller,
                             last_call'.arg[1], last_call'.arg[2]).dose_ml,
                   PUMP_MIN_DOSE_VOLUME, PUMP_MAX_DOSE_VOLUME)
\* the hourly counter the gate leaves behind: 0 when the window has elapsed
CounterAtGate(i) ==
    IF now' - pumps[i].controller.hour_start >= kHourMs
    THEN 0 ELSE pumps[i].controller.doses_this_hour

\* C33: the step that moves a pump from IDLE to PRIMING is a dose request that
\* returns true, and it sets the pump's last-dose time to the clock, its hourly
\* counter to one more than the gate left it and its lifetime total to the old
\* total plus the dose volume; every other step (a refused request, the
\* sequencer, the sweep, a stop, an emergency stop, a timeout) leaves the
\* last-dose time and the lifetime total as they are and does not raise the
\* hourly counter.
C33_BookkeepingAtAcceptanceOnly ==
    [][\A i \in PumpIds :
         LET c == pumps[i].controller
             d == pumps'[i].controller
         IN  IF Accepts(i)
             THEN /\ last_call'.op \in {"pump_ph_dose", "manual_dose"}
                  /\ last_call'.ret
                  /\ d.last_dose_time = now'
                  /\ d.doses_this_hour = CounterAtGate(i) + 1
                  /\ d.total_ml_dosed = c.total_ml_dosed + RequestedDose(i)
             ELSE /\ d.last_dose_time = c.last_dose_time
                  /\ d.total_ml_dosed = c.total_ml_dosed
                  /\ d.doses_this_hour \in {c.doses_this_hour, 0}]_vars

\* An emergency stop has just aborted the first dose of PH_UP, and the dose is
\* still on the books
C33_Witness ==
    /\ last_call.op = "emergency_stop"
    /\ last_call.from \in {"PRIMING", "DOSING"}
    /\ state_manager.pump_states[PH_UP] = "IDLE"
    /\ Len(accepted[PH_UP]) = 1
    /\ pumps[PH_UP].controller.doses_this_hour = 1
    /\ pumps[PH_UP].controller.last_dose_time = accepted[PH_UP][1]
    /\ pumps[PH_UP].controller.total_ml_dosed >= PUMP_MIN_DOSE_VOLUME

\* C34: no step taken while the clock reads less than 300000 ms accepts a dose
\* (no pump leaves IDLE for PRIMING or DOSING and every dose request returns
\* false), so the first dose of every pump is accepted at 300000 ms or later.
C34_NoDoseInFirstFiveMinutes ==
    /\ [][now' < PUMP_MIN_DOSE_INTERVAL =>
             /\ accepted' = accepted
             /\ \A i \in PumpIds :
                    state_manager.pump_states[i] = "IDLE" =>
                        state_manager'.pump_states[i] = "IDLE"
             /\ last_call'.op \in DoseRequests => ~last_call'.ret]_vars
    /\ [](\A i \in PumpIds :
             /\ accepted[i] # <<>> => accepted[i][1] >= PUMP_MIN_DOSE_INTERVAL
             /\ \/ pumps[i].controller.last_dose_time = 0
                \/ pumps[i].controller.last_dose_time >= PUMP_MIN_DOSE_INTERVAL)

\* The loop has just asked for an automatic dose 299999 ms after boot, with
\* automatic control on, the pump it chose idle and never dosed, and a measured
\* pH that calls for at least the minimum dose, and was refused
C34_Witness ==
    /\ last_call.op = "pump_ph_dose"
    /\ ~last_call.ret
    /\ now = PUMP_MIN_DOSE_INTERVAL - 1
    /\ pump_system.auto_ph_control
    /\ ~OutOfRange(last_call.arg[1], last_call.arg[2])
    /\ \E i \in {PH_UP, PH_DOWN} :
          /\ i = PhPump(last_call.arg[1])
          /\ state_manager.pump_states[i] = "IDLE"
          /\ pumps[i].controller.last_dose_time = 0
          /\ pumps[i].controller.doses_this_hour = 0
          /\ pid_terms(pumps[i].controller, last_call.arg[1],
                       last_call.arg[2]).dose_ml >= PUMP_MIN_DOSE_VOLUME

StopRequests == {"stop_all", "stop_manual", "emergency_stop"}

\* C35: switching maintenance off moves the device from MAINTENANCE to
\* MONITORING, stamps the device's entry time and changes nothing else; and a
\* pump in MAINTENANCE stays there, with no dose accepted for it, through every
\* step but a stop_all, stop_manual or emergency stop, which puts it in IDLE.
C35_MaintenanceOffLeavesPumps ==
    [][/\ (last_call'.op = "set_maintenance"
             /\ state_manager.system_state = "MAINTENANCE") =>
              /\ state_manager' =
                     [state_manager EXCEPT !.system_state = "MONITORING",
                                           !.system_state_entry_time = now']
              /\ UNCHANGED <<now, pumps, pump_system, ledc, sensors,
                             sensor_error_count, accepted>>
       /\ \A i \in PumpIds :
             state_manager.pump_states[i] = "MAINTENANCE" =>
                /\ accepted'[i] = accepted[i]
                /\ Bookkeeping(pumps'[i].controller) = Bookkeeping(pumps[i].controller)
                /\ (last_call'.op \in DoseRequests /\ last_call'.pump = i)
                       => ~last_call'.ret
                /\ IF last_call'.op \in StopRequests
                      /\ (last_call'.op = "stop_manual" => last_call'.pump = i)
                   THEN state_manager'.pump_states[i] = "IDLE"
                   ELSE /\ state_manager'.pump_states[i] = "MAINTENANCE"
                        /\ state_manager'.pump_state_entry_times[i] =
                               state_manager.pump_state_entry_times[i]]_vars

\* Maintenance has been switched off again, the dose interval of PH_UP has
\* elapsed and the device is monitoring, but the pump is still in MAINTENANCE
\* and the operator's manual dose has just been refused
C35_Witness ==
    /\ last_call.op = "manual_dose"
    /\ ~last_call.ret
    /\ last_call.from = "MAINTENANCE"
    /\ state_manager.system_state = "MONITORING"
    /\ state_manager.pump_states[PH_UP] = "MAINTENANCE"
    /\ now - pumps[PH_UP].controller.last_dose_time >= PUMP_MIN_DOSE_INTERVAL
    /\ pumps[PH_UP].controller.doses_this_hour < PUMP_MAX_DOSES_PER_HOUR

\* C36: at the end of every iteration of loop(), whatever the device state,
\* pump_is_running reports true only for a pump in PRIMING or DOSING.
C36_RunningOnlyWhilePrimingOrDosing ==
    IterationEnded =>
        \A i \in PumpIds :
            pump_is_running(World, i) =>
                state_manager.pump_states[i] \in {"PRIMING", "DOSING"}

SystemEscapes == {"ERROR", "MAINTENANCE", "SHUTDOWN"}
PumpEscapes == {"IDLE", "ERROR", "MAINTENANCE"}
SensorEscapes == {"ERROR"}

\* C37: a request for the state a machine is already in returns true and
\* restamps the machine's entry time when the state is an escape state (device
\* ERROR, MAINTENANCE, SHUTDOWN; pump IDLE, ERROR, MAINTENANCE; sensing ERROR),
\* and returns false and leaves the entry time alone otherwise; either way the
\* state stays.  The sweep measures its timed recoveries from that entry time:
\* it releases the device from ERROR above 5000 ms, sensing from ERROR above
\* 10000 ms and (outside MAINTENANCE) a pump from ERROR above 30000 ms since
\* the last stamp, and not at or below.
C37_SelfTransitionRestamps ==
    [][/\ (last_call'.op = "system_transition_to"
             /\ last_call'.arg = state_manager.system_state) =>
              /\ state_manager'.system_state = state_manager.system_state
              /\ last_call'.ret = (last_call'.arg \in SystemEscapes)
              /\ state_manager'.system_state_entry_time =
                    IF last_call'.arg \in SystemEscapes THEN now'
                    ELSE state_manager.system_state_entry_time
       /\ (last_call'.op = "pump_transition_to"
             /\ last_call'.arg = state_manager.pump_states[last_call'.pump]) =>
              /\ state_manager'.pump_states = state_manager.pump_states
              /\ last_call'.ret = (last_call'.arg \in PumpEscapes)
              /\ state_manager'.pump_state_entry_times[last_call'.pump] =
                    IF last_call'.arg \in PumpEscapes THEN now'
                    ELSE state_manager.pump_state_entry_times[last_call'.pump]
       /\ (last_call'.op = "sensor_transition_to"
             /\ last_call'.arg = state_manager.sensor_state) =>
              /\ state_manager'.sensor_state = state_manager.sensor_state
              /\ last_call'.ret = (last_call'.arg \in SensorEscapes)
              /\ state_manager'.sensor_state_entry_time =
                    IF last_call'.arg \in SensorEscapes THEN now'
                    ELSE state_manager.sensor_state_entry_time
       /\ (SweepStep /\ state_manager.system_state = "ERROR") =>
              (state_manager'.system_state = "MONITORING")
                  = (now' - state_manager.system_state_entry_time > 5000)
       /\ (SweepStep /\ state_manager.sensor_state = "ERROR") =>
              (state_manager'.sensor_state = "READY")
                  = (now' - state_manager.sensor_state_entry_time > 10000)
       /\ \A i \in PumpIds :
             (SweepStep /\ state_manager.pump_states[i] = "ERROR"
                /\ state_manager.system_state # "MAINTENANCE") =>
                 (state_manager'.pump_states[i] = "IDLE")
                     = (now' - state_manager.pump_state_entry_times[i] > 30000)]_vars

\* ERROR has just been requested at 6000 ms for PH_UP, which was in ERROR
\* already, and the request was accepted and restamped the pump
C37_Witness ==
    /\ last_call.op = "pump_transition_to"
    /\ last_call.arg = "ERROR"
    /\ last_call.from = "ERROR"
    /\ last_call.ret
    /\ state_manager.pump_states[PH_UP] = "ERROR"
    /\ state_manager.pump_state_entry_times[PH_UP] = now
    /\ now = 6000

PumpPart(sm) == <<sm.pump_states, sm.pump_state_entry_times>>
OtherParts(sm) ==
    <<sm.system_state, sm.system_state_entry_time,
      sm.sensor_state, sm.sensor_state_entry_time,
      sm.calibration_state, sm.calibration_state_entry_time>>

\* C38: a pump transition request for pump p, accepted or refused, leaves the
\* state and entry time of every other pump, of the device, of sensing and of
\* calibration as they were; a device, sensing or calibration transition
\* request leaves every pump's state and entry time as they were.
C38_TransitionRequestsAreIsolated ==
    [][/\ last_call'.op = "pump_transition_to" =>
              /\ \A i \in PumpIds \ {last_call'.pump} :
                    /\ state_manager'.pump_states[i] = state_manager.pump_states[i]
                    /\ state_manager'.pump_state_entry_times[i] =
                           state_manager.pump_state_entry_times[i]
              /\ OtherParts(state_manager') = OtherParts(state_manager)
       /\ last_call'.op \in {"system_transition_to", "sensor_transition_to",
                             "calibration_transition_to"} =>
              PumpPart(state_manager') = PumpPart(state_manager)]_vars

\* ERROR has just been requested for the device at a later clock value, with
\* PH_UP dosing and NUTRIENT_B cooling down since boot: the request was
\* accepted and the two pumps are as they were
C38_Witness ==
    /\ last_call.op = "system_transition_to"
    /\ last_call.arg = "ERROR"
    /\ last_call.ret
    /\ state_manager.system_state_entry_time = now
    /\ now > 0
    /\ state_manager.pump_states[PH_UP] = "DOSING"
    /\ state_manager.pump_states[NUTRIENT_B] = "COOLING_DOWN"
    /\ state_manager.pump_state_entry_times[PH_UP] = 0
    /\ state_manager.pump_state_entry_times[NUTRIENT_B] = 0

\* C39: every pump's hourly dose counter is between 0 and 3 in every reachable
\* state; the step that accepts a dose finds the counter, after the gate's
\* window reset, below 3 and leaves it one higher, and every other step leaves
\* the counter as it is or at 0.
C39_HourlyCounterWithinQuota ==
    /\ [](\A i \in PumpIds :
            pumps[i].controller.doses_this_hour \in 0..PUMP_MAX_DOSES_PER_HOUR)
    /\ [][\A i \in PumpIds :
            IF Accepts(i)
            THEN /\ CounterAtGate(i) < PUMP_MAX_DOSES_PER_HOUR
                 /\ pumps'[i].controller.doses_this_hour = CounterAtGate(i) + 1
            ELSE pumps'[i].controller.doses_this_hour \in
                     {pumps[i].controller.doses_this_hour, 0}]_vars

\* A fourth dose of PH_UP has just been refused with the pump idle, the device
\* monitoring or dosing and the last dose at least 300000 ms ago: the counter
\* stands at 3 within the hour
C39_Witness ==
    /\ last_call.op = "manual_dose"
    /\ last_call.pump = PH_UP
    /\ ~last_call.ret
    /\ last_call.from = "IDLE"
    /\ state_manager.system_state \in {"MONITORING", "DOSING"}
    /\ now - pumps[PH_UP].controller.last_dose_time >= PUMP_MIN_DOSE_INTERVAL
    /\ now - pumps[PH_UP].controller.hour_start < kHourMs
    /\ pumps[PH_UP].controller.doses_this_hour = PUMP_MAX_DOSES_PER_HOUR
    /\ Len(accepted[PH_UP]) = 3

\* the volume (1/10000 ml) accepted for pump i in this step: the clamped
\* volume of the request when the pump's list of accepted doses grows by one
AcceptedVolume(i) ==
    IF Len(accepted'[i]) = Len(accepted[i]) + 1 THEN RequestedDose(i) ELSE 0

\* C40: after pump initialization a pump's lifetime total, as
\* pump_get_total_dosed reports it, is the sum of the volumes of the doses
\* accepted for it: it is 0 while none has been accepted, every step adds
\* exactly the volume accepted for the pump in that step (nothing when none
\* is), so it never decreases and only an accepted dose changes it, and with n
\* doses accepted it lies between n times 5 ml and n times 25 ml.
C40_TotalIsSumOfAcceptedDoses ==
    /\ [](pc # "boot" =>
            \A i \in PumpIds :
               /\ Len(accepted[i]) = 0 => pump_get_total_dosed(World, i) = 0
               /\ pump_get_total_dosed(World, i) >=
                      Len(accepted[i]) * PUMP_MIN_DOSE_VOLUME
               /\ pump_get_total_dosed(World, i) <=
                      Len(accepted[i]) * PUMP_MAX_DOSE_VOLUME)
    /\ [][pc # "boot" =>
            \A i \in PumpIds :
               /\ pumps'[i].controller.total_ml_dosed =
                      pump_get_total_dosed(World, i) + AcceptedVolume(i)
               /\ pumps'[i].controller.total_ml_dosed >=
                      pump_get_total_dosed(World, i)]_vars

\* A second dose of PH_UP has just been accepted, the first having been
\* stopped: 5 ml and 25 ml were accepted and the lifetime total is 30 ml
C40_Witness ==
    /\ last_call.op = "manual_dose"
    /\ last_call.pump = PH_UP
    /\ last_call.ret
    /\ Len(accepted[PH_UP]) = 2
    /\ pump_get_total_dosed(World, PH_UP) = PUMP_MIN_DOSE_VOLUME + PUMP_MAX_DOSE_VOLUME
====
